---- MODULE Spec2Model ----
(***************************************************************************)
(* TurnTabler: WAV streaming of PCM audio to a playback device.            *)
(*                                                                         *)
(* The module holds several specifications over one set of variables:      *)
(*   SpecHeader  - generate_wav_header over a range of formats             *)
(*   SpecStream  - WAVStreamingServer._generate_stream pulling from a      *)
(*                 USBAudioSource backed by USBAudioCapture.capture_stream *)
(*   SpecRing    - the producer/consumer ring buffer of the design         *)
(*   SpecSources - SyntheticAudioSource and the two FileAudioSource        *)
(*                 classes, called directly                                *)
(*   SpecClose   - close() of every source, SpecStream and SpecSources     *)
(*                 side by side                                            *)
(*   SpecFormat  - the properties of AudioFormat and WAVFormat             *)
(*   SpecDiagnostics - StreamingDiagnostics                                *)
(*   SpecPercentile - StreamingDiagnostics._percentile, called directly    *)
(*   SpecSession - TurnTablerStreamer.run and StreamingTest.run_test       *)
(*   SpecCancel  - USBAudioCapture.stop() beside one consumer of the       *)
(*                 capture_stream generator                                *)
(* Each specification leaves the variables of the other parts untouched.   *)
(***************************************************************************)
EXTENDS Integers, Sequences, FiniteSets, TLC

VARIABLES
    \* ---- header generation (streaming_wav.generate_wav_header) ----
    wav_format,     \* the WAVFormat handed to generate_wav_header
    infinite,       \* the infinite argument
    header,         \* the bytes returned, <<>> before the call
    \* ---- USBAudioCapture (usb_audio_capture.py) ----
    pcm,            \* self.pcm: TRUE while the ALSA device is open, FALSE for None
    is_capturing,   \* self.is_capturing
    frames_captured,\* self._frames_captured
    overruns,       \* self._overruns
    gen,            \* the capture_stream generator: "created", "running",
                    \* "sleeping" (in time.sleep after a zero read),
                    \* "suspended" (at its yield) or "done"
    reads,          \* history: the results of pcm.read() since the generator began
    gen_out,        \* history: the chunks the generator has yielded
    gen_error,      \* history: the generator ended by raising CaptureError
    stopped_at,     \* history: the number of chunks the generator had yielded
                    \* when stop() was first called on the capture, -1 before
    \* ---- USBAudioSource (audio_source.py) ----
    stream,         \* self._stream: TRUE for the generator, FALSE for None
    \* ---- WAVStreamingServer._generate_stream, one per connection ----
    pc,             \* position of each connection's async generator
    chunk,          \* the local variable chunk of each connection
    chunk_count,    \* the local variable chunk_count of each connection
    delivered,      \* history: the items each connection has yielded to the transport
    obtained,       \* history: the chunks read_chunk has returned to each connection
    pulls,          \* history: number of read_chunk calls of each connection
    loop_task,      \* the connection whose code occupies the event loop thread, 0 if none
    \* ---- close() of the sources ----
    close_calls,    \* history: number of close() calls made on the source
    pcm_closes,     \* history: number of self.pcm.close() calls
    file_closes,    \* history: number of self._file.close() calls
    \* ---- a source called directly (audio_source.py, streaming_wav.py) ----
    src_class,      \* "USBAudioSource", "SyntheticAudioSource", "FileAudioSource"
                    \* (audio_source.py), "WavFileAudioSource" (the
                    \* FileAudioSource of streaming_wav.py) or "none"
    src_format,     \* self.format, an AudioFormat
    src_req,        \* the argument of the last read_chunk call
    src_ret,        \* what the last read_chunk call returned
    src_raised,     \* the last read_chunk call raised ValueError
    src_calls,      \* history: number of read_chunk calls
    src_reqs,       \* history: the arguments of all read_chunk calls
    \* ---- FileAudioSource ----
    file_bytes,     \* the contents of the file at file_path
    file_loop,      \* self.loop
    file_open,      \* self._file is an open file (FALSE for None)
    file_pos,       \* the read position of self._file
    data_start,     \* self._data_start
    file_out,       \* history: the bytes of all chunks returned, concatenated
    \* ---- SyntheticAudioSource ----
    amplitude,      \* self.amplitude, in units of 1/AmpScale
    sample_count,   \* self.sample_count
    syn_ideal,      \* history: sample_value * 32767 of each frame of the last call
    syn_index,      \* history: self.sample_count + i of each frame of the last call
    \* ---- AudioFormat and WAVFormat properties ----
    fmt,            \* the sample_rate, channels and bits_per_sample of both objects
    fmt_props,      \* the properties read from them, fmt_none before the reading
    \* ---- StreamingDiagnostics (diagnostics.py) ----
    diag,           \* the fields of the StreamingDiagnostics object
    clock,          \* time.time(), in milliseconds
    diag_ret,       \* the last call made on the object and what it returned
    diag_calls,     \* history: number of calls made on the object
    diag_ticks,     \* history: number of advances of the clock
    \* ---- StreamingDiagnostics._percentile, called directly ----
    pct_data,       \* the data argument, a list of samples
    pct_low,        \* the percentile argument of the first call, -1 before it
    pct_low_ret,    \* what the first call returned
    pct_high,       \* the percentile argument of the second call, -1 before it
    pct_high_ret,   \* what the second call returned
    \* ---- TurnTablerStreamer.run and StreamingTest.run_test ----
    streamer,       \* the fields of the streamer object
    run,            \* the call in progress: its position, argument, locals and
                    \* what it returned
    world,          \* what the call meets and what it has done there: whether
                    \* SoCo finds a device, the HTTP thread, the device calls
    \* ---- streaming_icy.stream_with_icy_metadata ----
    icy_size,       \* the length of AUDIO_FILE in bytes
    icy_pos,        \* the read position of f
    icy_bytes_sent, \* bytes_sent
    icy_out,        \* history: the items the generator has yielded
    icy_pc,         \* "not requested", "reading", "yielded" or "done"
    \* ---- Ring Buffer (producer/consumer) ----
    rb_state,       \* "Idle", "Filling", "Ready", "Draining" or "Stopped"
    rb_buf,         \* the chunks held, oldest first
    rb_ready,       \* the ready flag
    rb_stop,        \* the stop flag
    rb_prod,        \* the producer: "none", "loop", "have_chunk" or "exited"
    rb_chunk,       \* the chunk the producer has read and not yet appended, 0 if none
    rb_next,        \* the number of the next chunk of the producer's source
    rb_take,        \* take(): "idle" or "polling"
    rb_polls,       \* sleeps of the take() in progress
    rb_result,      \* what the last take() returned
    rb_occupancy,   \* the occupancy last reported to Diagnostics, -1 if none
    rb_prefill,     \* prefill(): "idle", "waiting", "ok" or "timeout"
    rb_waited,      \* time the prefill() in progress has waited
    rb_appended,    \* history: the chunks appended
    rb_taken,       \* history: the chunks take() has returned
    rb_evicted,     \* history: the chunks evicted
    rb_peak         \* history: the greatest length the buffer has had

hdrVars == <<wav_format, infinite, header>>
capVars == <<pcm, is_capturing, frames_captured, overruns, gen, reads, gen_out,
             gen_error>>
srvVars == <<stream, pc, chunk, chunk_count, delivered, obtained, pulls, loop_task>>
rbVars == <<rb_state, rb_buf, rb_ready, rb_stop, rb_prod, rb_chunk, rb_next,
            rb_take, rb_polls, rb_result, rb_occupancy, rb_prefill, rb_waited,
            rb_appended, rb_taken, rb_evicted, rb_peak>>

closeVars == <<close_calls, pcm_closes, file_closes>>
srcVars == <<src_class, src_format, src_req, src_ret, src_raised, src_calls,
             src_reqs>>
fileVars == <<file_bytes, file_loop, file_open, file_pos, data_start, file_out>>
synVars == <<amplitude, sample_count, syn_ideal, syn_index>>
fmtVars == <<fmt, fmt_props>>
diagVars == <<diag, clock, diag_ret, diag_calls, diag_ticks>>
pctVars == <<pct_data, pct_low, pct_low_ret, pct_high, pct_high_ret>>
runVars == <<streamer, run, world>>
stopVars == <<stopped_at>>
icyVars == <<icy_size, icy_pos, icy_bytes_sent, icy_out, icy_pc>>

\* what each part leaves alone
outsideHeader == <<capVars, srvVars, rbVars, closeVars, srcVars, fileVars, synVars,
                   fmtVars, diagVars, pctVars, runVars, stopVars, icyVars>>
outsideUsb == <<hdrVars, rbVars, srcVars, fileVars, synVars, fmtVars, diagVars, pctVars,
                runVars, stopVars, icyVars>>
outsideStream == <<outsideUsb, closeVars>>
outsideRing == <<hdrVars, capVars, srvVars, closeVars, srcVars, fileVars, synVars,
                 fmtVars, diagVars, pctVars, runVars, stopVars, icyVars>>
outsideSources == <<hdrVars, capVars, srvVars, rbVars, fmtVars, pcm_closes, diagVars,
                    pctVars, runVars, stopVars, icyVars>>
outsideFormat == <<hdrVars, capVars, srvVars, rbVars, closeVars, srcVars, fileVars,
                   synVars, diagVars, pctVars, runVars, stopVars, icyVars>>
outsideDiagnostics == <<hdrVars, capVars, srvVars, rbVars, closeVars, srcVars, fileVars,
                        synVars, fmtVars, pctVars, runVars, stopVars, icyVars>>
outsidePercentile == <<hdrVars, capVars, srvVars, rbVars, closeVars, srcVars, fileVars,
                       synVars, fmtVars, diagVars, runVars, stopVars, icyVars>>
outsideSession == <<hdrVars, capVars, srvVars, rbVars, closeVars, srcVars, fileVars,
                    synVars, fmtVars, diagVars, pctVars, stopVars, icyVars>>
outsideIcy == <<hdrVars, capVars, srvVars, rbVars, closeVars, srcVars, fileVars, synVars,
                fmtVars, diagVars, pctVars, runVars, stopVars>>
outsideStop == <<hdrVars, srvVars, rbVars, closeVars, srcVars, fileVars, synVars,
                 fmtVars, diagVars, pctVars, runVars, icyVars>>

(***************************************************************************)
(* Bytes.  A byte string is a sequence of naturals 0..255.                 *)
(***************************************************************************)
RIFF == <<82, 73, 70, 70>>
WAVE == <<87, 65, 86, 69>>
FMT_ == <<102, 109, 116, 32>>
DATA == <<100, 97, 116, 97>>

\* struct.pack('<H', n): two bytes, least significant first
PackH(n) == <<n % 256, (n \div 256) % 256>>

\* A 32-bit unsigned value is kept as its two 16-bit words <<high, low>>,
\* because 0xFFFFFFFF does not fit the integers of the model checker.
Words(n) == <<n \div 65536, n % 65536>>

\* struct.pack('<I', w): four bytes, least significant first
PackI(w) == PackH(w[2]) \o PackH(w[1])

\* little-endian decoding of a byte string that fits the model's integers
RECURSIVE UnpackLE(_)
UnpackLE(bs) == IF bs = <<>> THEN 0 ELSE Head(bs) + 256 * UnpackLE(Tail(bs))

(***************************************************************************)
(* WAVFormat                                                               *)
(***************************************************************************)
SampleRates == {8000, 44100, 48000}
ChannelCounts == {1, 2, 6}
BitDepths == {8, 16, 24}

WAVFormats ==
    [sample_rate : SampleRates, channels : ChannelCounts, bits_per_sample : BitDepths]

\* WAVFormat() with its defaults
DefaultFormat == [sample_rate |-> 48000, channels |-> 2, bits_per_sample |-> 16]

byte_rate(f) == (f.sample_rate * f.channels * f.bits_per_sample) \div 8

block_align(f) == (f.channels * f.bits_per_sample) \div 8

U32MAX == <<65535, 65535>>

generate_wav_header_swapped(f, inf) ==
    LET data_size == IF inf THEN U32MAX ELSE Words(0)
    IN  RIFF \o PackI(data_size) \o WAVE
        \o FMT_ \o PackI(Words(16)) \o PackH(1) \o PackH(f.channels)
        \o PackI(Words(byte_rate(f))) \o PackI(Words(f.sample_rate))
        \o PackH(block_align(f)) \o PackH(f.bits_per_sample)
        \o DATA \o PackI(data_size)

generate_wav_header(f, inf) ==
    LET data_size == IF inf THEN U32MAX ELSE Words(0)
    IN  RIFF \o PackI(data_size) \o WAVE
        \o FMT_ \o PackI(Words(16)) \o PackH(1) \o PackH(f.channels)
        \o PackI(Words(f.sample_rate)) \o PackI(Words(byte_rate(f)))
        \o PackH(block_align(f)) \o PackH(f.bits_per_sample)
        \o DATA \o PackI(data_size)

(***************************************************************************)
(* AudioFormat                                                             *)
(***************************************************************************)
\* AudioFormat() with its defaults
DefaultAudioFormat == [sample_rate |-> 48000, channels |-> 2, bits_per_sample |-> 16]

bytes_per_sample_whole_bytes(f) == f.channels * (f.bits_per_sample \div 8)

bytes_per_sample(f) == (f.channels * f.bits_per_sample) \div 8

AudioFormat_byte_rate(f) == f.sample_rate * bytes_per_sample(f)

AudioFormat_block_align(f) == bytes_per_sample(f)

ChannelChoices == {1, 2, 3, 6}
BitChoices == {8, 12, 16, 24, 32}

\* the formats the two format classes are constructed with
AudioFormats ==
    [sample_rate : SampleRates, channels : ChannelChoices, bits_per_sample : BitChoices]

\* no property has been read yet
fmt_none == [read |-> FALSE, bytes_per_sample |-> 0, byte_rate |-> 0,
             block_align |-> 0, wav_byte_rate |-> 0, wav_block_align |-> 0]

(***************************************************************************)
(* Python values                                                           *)
(***************************************************************************)
\* Optional[bytes]: None, or a byte string (b'' is a value, not None)
None == [is_none |-> TRUE, bytes |-> <<>>]
Bytes(b) == [is_none |-> FALSE, bytes |-> b]

Last(q) == q[Len(q)]
Front(q) == SubSeq(q, 1, Len(q) - 1)

(***************************************************************************)
(* Bounds                                                                  *)
(***************************************************************************)
NumConns == 2      \* client connections to /stream.wav
MaxCloses == 2         \* close() calls made on one source
MaxReads == 3      \* pcm.read() calls in one run

Conns == 1..NumConns

(***************************************************************************)
(* USBAudioCapture.capture_stream: the ALSA device and the generator.      *)
(* The generator runs on the thread of whoever called next() on it; here   *)
(* that is connection c inside USBAudioSource.read_chunk.                  *)
(***************************************************************************)
EPIPE == 32
ENODEV == 19
PeriodSize == 1024

\* the bytes of the n-th read of the device; reads differ so that reordering,
\* loss and duplication show
PeriodData(n) == <<n, 255 - n>>

\* what pcm.read() can return for the n-th read: (length, data)
ReadResults(n) ==
    { <<PeriodSize, PeriodData(n)>>, <<0, <<>>>>, <<-EPIPE, <<>>>>, <<-ENODEV, <<>>>> }

\* read_chunk returns v to connection c
Return(c, v) ==
    /\ chunk' = [chunk EXCEPT ![c] = v]
    /\ pc' = [pc EXCEPT ![c] = "returned"]
    /\ obtained' = IF v.is_none THEN obtained
                   ELSE [obtained EXCEPT ![c] = Append(@, v.bytes)]

InGenerator(c) == pc[c] = "reading" /\ loop_task = c

\* first next(): the code before the loop
CaptureBegin(c) ==
    /\ InGenerator(c)
    /\ gen = "created"
    /\ IF ~pcm
       THEN \* raise CaptureError, caught by read_chunk
            /\ gen' = "done"
            /\ gen_error' = TRUE
            /\ Return(c, None)
            /\ UNCHANGED <<is_capturing, frames_captured, overruns, reads>>
       ELSE /\ is_capturing' = TRUE
            /\ frames_captured' = 0
            /\ overruns' = 0
            /\ reads' = <<>>
            /\ gen' = "running"
            /\ UNCHANGED <<pc, chunk, obtained, gen_error>>
    /\ UNCHANGED <<pcm, gen_out, stream, chunk_count, delivered, pulls, loop_task>>
    /\ UNCHANGED outsideStream

\* while self.is_capturing: false, the loop ends, finally, StopIteration
CaptureExit(c) ==
    /\ InGenerator(c)
    /\ gen \in {"running", "sleeping"}
    /\ ~is_capturing
    /\ is_capturing' = FALSE
    /\ gen' = "done"
    /\ Return(c, None)
    /\ UNCHANGED <<pcm, frames_captured, overruns, reads, gen_out, gen_error>>
    /\ UNCHANGED <<stream, chunk_count, delivered, pulls, loop_task>>
    /\ UNCHANGED outsideStream

CanRead(c) ==
    /\ InGenerator(c)
    /\ gen \in {"running", "sleeping"}
    /\ is_capturing
    /\ pcm
    /\ Len(reads) < MaxReads

\* length > 0: count the frames and yield the data
CaptureReadData(c) ==
    /\ CanRead(c)
    /\ \E r \in ReadResults(Len(reads) + 1) :
          /\ r[1] > 0
          /\ reads' = Append(reads, r)
          /\ frames_captured' = frames_captured + r[1]
          /\ gen_out' = Append(gen_out, r[2])
          /\ gen' = "suspended"
          /\ Return(c, Bytes(r[2]))
    /\ UNCHANGED <<pcm, is_capturing, overruns, gen_error>>
    /\ UNCHANGED <<stream, chunk_count, delivered, pulls, loop_task>>
    /\ UNCHANGED outsideStream

CaptureReadNothing_returns_none(c) ==
    /\ CanRead(c)
    /\ \E r \in ReadResults(Len(reads) + 1) :
          /\ r[1] = 0
          /\ reads' = Append(reads, r)
    /\ gen' = "suspended"
    /\ Return(c, None)
    /\ UNCHANGED <<pcm, is_capturing, frames_captured, overruns, gen_out, gen_error>>
    /\ UNCHANGED <<stream, chunk_count, delivered, pulls, loop_task>>
    /\ UNCHANGED outsideStream

\* length == 0: no data yet, time.sleep(0.001) and go round again
CaptureReadNothing(c) ==
    /\ CanRead(c)
    /\ \E r \in ReadResults(Len(reads) + 1) :
          /\ r[1] = 0
          /\ reads' = Append(reads, r)
    /\ gen' = "sleeping"
    /\ UNCHANGED <<pcm, is_capturing, frames_captured, overruns, gen_out, gen_error>>
    /\ UNCHANGED srvVars
    /\ UNCHANGED outsideStream

CaptureOverrun_fatal(c) ==
    /\ CanRead(c)
    /\ \E r \in ReadResults(Len(reads) + 1) :
          /\ r[1] = -EPIPE
          /\ reads' = Append(reads, r)
    /\ overruns' = overruns + 1
    /\ is_capturing' = FALSE
    /\ gen' = "done"
    /\ Return(c, None)
    /\ UNCHANGED <<pcm, frames_captured, gen_out, gen_error>>
    /\ UNCHANGED <<stream, chunk_count, delivered, pulls, loop_task>>
    /\ UNCHANGED outsideStream

\* length == -EPIPE: count the overrun and go round again
CaptureOverrun(c) ==
    /\ CanRead(c)
    /\ \E r \in ReadResults(Len(reads) + 1) :
          /\ r[1] = -EPIPE
          /\ reads' = Append(reads, r)
    /\ overruns' = overruns + 1
    /\ gen' = "running"
    /\ UNCHANGED <<pcm, is_capturing, frames_captured, gen_out, gen_error>>
    /\ UNCHANGED srvVars
    /\ UNCHANGED outsideStream

CaptureReadError_ignored(c) ==
    /\ CanRead(c)
    /\ \E r \in ReadResults(Len(reads) + 1) :
          /\ r[1] < 0
          /\ r[1] # -EPIPE
          /\ reads' = Append(reads, r)
    /\ gen' = "running"
    /\ UNCHANGED <<pcm, is_capturing, frames_captured, overruns, gen_out, gen_error>>
    /\ UNCHANGED srvVars
    /\ UNCHANGED outsideStream

CaptureReadError_recovers(c) ==
    /\ CanRead(c)
    /\ \E r \in ReadResults(Len(reads) + 1) :
          /\ r[1] < 0
          /\ r[1] # -EPIPE
          /\ reads' = Append(reads, r)
    /\ gen' = "suspended"
    /\ gen_error' = TRUE
    /\ Return(c, None)
    /\ UNCHANGED <<pcm, is_capturing, frames_captured, overruns, gen_out>>
    /\ UNCHANGED <<stream, chunk_count, delivered, pulls, loop_task>>
    /\ UNCHANGED outsideStream

\* any other negative length: raise CaptureError, finally, caught by read_chunk
CaptureReadError(c) ==
    /\ CanRead(c)
    /\ \E r \in ReadResults(Len(reads) + 1) :
          /\ r[1] < 0
          /\ r[1] # -EPIPE
          /\ reads' = Append(reads, r)
    /\ is_capturing' = FALSE
    /\ gen' = "done"
    /\ gen_error' = TRUE
    /\ Return(c, None)
    /\ UNCHANGED <<pcm, frames_captured, overruns, gen_out>>
    /\ UNCHANGED <<stream, chunk_count, delivered, pulls, loop_task>>
    /\ UNCHANGED outsideStream

(***************************************************************************)
(* USBAudioSource                                                          *)
(***************************************************************************)
\* read_chunk up to the call of next(self._stream)
ReadChunkCall(c) ==
    /\ pc[c] \in {"header_yielded", "slept"}
    /\ loop_task = 0
    /\ loop_task' = c
    /\ pulls' = [pulls EXCEPT ![c] = @ + 1]
    /\ IF ~stream \/ gen = "done"
       THEN \* self._stream is None, or StopIteration from a finished generator
            /\ Return(c, None)
            /\ UNCHANGED gen
       ELSE /\ pc' = [pc EXCEPT ![c] = "reading"]
            /\ gen' = IF gen = "suspended" THEN "running" ELSE gen
            /\ UNCHANGED <<chunk, obtained>>
    /\ UNCHANGED <<pcm, is_capturing, frames_captured, overruns, reads, gen_out,
                   gen_error>>
    /\ UNCHANGED <<stream, chunk_count, delivered>>
    /\ UNCHANGED outsideStream

\* close(), called by the session's cleanup on its own thread:
\* capture.stop() and self._stream = None if there is a stream, then
\* capture.close(), which closes self.pcm if it is set
SourceClose ==
    /\ src_class = "USBAudioSource"
    /\ close_calls < MaxCloses
    /\ close_calls' = close_calls + 1
    /\ is_capturing' = IF stream THEN FALSE ELSE is_capturing
    /\ stream' = FALSE
    /\ pcm_closes' = IF pcm THEN pcm_closes + 1 ELSE pcm_closes
    /\ pcm' = FALSE
    /\ UNCHANGED <<frames_captured, overruns, gen, reads, gen_out, gen_error>>
    /\ UNCHANGED <<pc, chunk, chunk_count, delivered, obtained, pulls, loop_task>>
    /\ UNCHANGED file_closes
    /\ UNCHANGED outsideUsb

\* USBAudioCapture.stop(), called on another thread than the generator's:
\* if self.is_capturing: self.is_capturing = False
CaptureStop ==
    /\ stopped_at = -1
    /\ stopped_at' = Len(gen_out)
    /\ is_capturing' = IF is_capturing THEN FALSE ELSE is_capturing
    /\ UNCHANGED <<pcm, frames_captured, overruns, gen, reads, gen_out, gen_error>>
    /\ UNCHANGED outsideStop

(***************************************************************************)
(* Sources called directly: read_chunk and close of SyntheticAudioSource   *)
(* and of the two FileAudioSource classes, one call per step.              *)
(***************************************************************************)
MaxSrcCalls == 4       \* read_chunk calls made on one source
MaxRequest == 2        \* the greatest num_frames or size requested
MaxData == 5           \* the greatest number of audio bytes in a file

Min(a, b) == IF a <= b THEN a ELSE b

Max(a, b) == IF a >= b THEN a ELSE b

Requests == 0..MaxRequest

\* the formats a source is constructed with
SourceFormats ==
    [sample_rate : {48000}, channels : {1, 2}, bits_per_sample : {8, 16, 24}]

\* ---- files ----
LIST == <<76, 73, 83, 84>>

\* n bytes of audio, all different
PCM(n) == [i \in 1..n |-> i]

Payloads == {PCM(n) : n \in 0..MaxData}

\* a file of raw PCM, a WAV file as generate_wav_header writes its header,
\* and a WAV file with a LIST chunk before its data chunk
RawFile(p) == p
WavFile(p) == generate_wav_header(DefaultFormat, FALSE) \o p
WavListFile(p) ==
    RIFF \o PackI(Words(22 + Len(p))) \o WAVE
    \o LIST \o PackI(Words(2)) \o <<73, 68>>
    \o DATA \o PackI(Words(Len(p))) \o p

FilesOf(p) == {RawFile(p), WavFile(p), WavListFile(p)}

Files == UNION {FilesOf(p) : p \in Payloads}

\* f.read(n) at position pos of a file holding b, n >= 0
FileRead(b, pos, n) ==
    IF pos >= Len(b) THEN <<>> ELSE SubSeq(b, pos + 1, Min(pos + n, Len(b)))

RECURSIVE FindData_at_chunk_header(_, _)
FindData_at_chunk_header(b, pos) ==
    LET chunk_header == FileRead(b, pos, 8)
        chunk_id == SubSeq(chunk_header, 1, 4)
        chunk_size == UnpackLE(SubSeq(chunk_header, 5, 8))
    IN  IF chunk_header = <<>>
        THEN [raised |-> FALSE, data_start |-> 0, pos |-> pos]
        ELSE IF Len(chunk_header) < 8
        THEN [raised |-> TRUE, data_start |-> 0, pos |-> pos + Len(chunk_header)]
        ELSE IF chunk_id = DATA
        THEN [raised |-> FALSE, data_start |-> pos, pos |-> pos + 8]
        ELSE FindData_at_chunk_header(b, pos + 8 + chunk_size)

\* the chunk loop of _open from position pos: _data_start and the position
\* the file is left at; struct.unpack raises on a header cut short
RECURSIVE FindData(_, _)
FindData(b, pos) ==
    LET chunk_header == FileRead(b, pos, 8)
        chunk_id == SubSeq(chunk_header, 1, 4)
        chunk_size == UnpackLE(SubSeq(chunk_header, 5, 8))
    IN  IF chunk_header = <<>>
        THEN [raised |-> FALSE, data_start |-> 0, pos |-> pos]
        ELSE IF Len(chunk_header) < 8
        THEN [raised |-> TRUE, data_start |-> 0, pos |-> pos + Len(chunk_header)]
        ELSE IF chunk_id = DATA
        THEN [raised |-> FALSE, data_start |-> pos + 8, pos |-> pos + 8]
        ELSE FindData(b, pos + 8 + chunk_size)

\* _open: raw PCM unless the first 12 bytes start with RIFF
Open(b) ==
    LET hdr == FileRead(b, 0, 12)
    IN  IF Len(hdr) < 4 \/ SubSeq(hdr, 1, 4) # RIFF
        THEN [raised |-> FALSE, data_start |-> 0, pos |-> 0]
        ELSE FindData(b, Len(hdr))

Returns(v) ==
    /\ src_ret' = v
    /\ src_raised' = FALSE
    /\ file_out' = IF v.is_none THEN file_out ELSE file_out \o v.bytes

\* audio_source.FileAudioSource.read_chunk(num_frames)
FileReadChunk ==
    /\ src_class = "FileAudioSource"
    /\ src_calls < MaxSrcCalls
    /\ src_calls' = src_calls + 1
    /\ \E num_frames \in Requests :
          /\ src_req' = num_frames
          /\ src_reqs' = src_reqs \cup {num_frames}
          /\ IF ~file_open
             THEN Returns(None) /\ UNCHANGED file_pos
             ELSE LET chunk_size == num_frames * bytes_per_sample(src_format)
                      data == FileRead(file_bytes, file_pos, chunk_size)
                      again == FileRead(file_bytes, data_start, chunk_size)
                  IN  IF data # <<>>
                      THEN /\ file_pos' = file_pos + Len(data)
                           /\ Returns(Bytes(data))
                      ELSE /\ file_pos' = data_start + Len(again)
                           /\ Returns(IF again # <<>> THEN Bytes(again) ELSE None)
    /\ UNCHANGED <<src_class, src_format, file_bytes, file_loop, file_open, data_start>>
    /\ UNCHANGED <<synVars, close_calls, file_closes>>
    /\ UNCHANGED outsideSources

\* streaming_wav.FileAudioSource.read_chunk(size)
WavFileReadChunk ==
    /\ src_class = "WavFileAudioSource"
    /\ src_calls < MaxSrcCalls
    /\ src_calls' = src_calls + 1
    /\ \E size \in Requests :
          /\ src_req' = size
          /\ src_reqs' = src_reqs \cup {size}
          /\ IF ~file_open
             THEN Returns(None) /\ UNCHANGED file_pos
             ELSE LET data == FileRead(file_bytes, file_pos, size)
                      remainder == FileRead(file_bytes, data_start, size - Len(data))
                  IN  IF data = <<>> \/ Len(data) < size
                      THEN IF file_loop
                           THEN /\ file_pos' = data_start + Len(remainder)
                                /\ Returns(Bytes(data \o remainder))
                           ELSE /\ file_pos' = file_pos + Len(data)
                                /\ Returns(None)
                      ELSE /\ file_pos' = file_pos + Len(data)
                           /\ Returns(Bytes(data))
    /\ UNCHANGED <<src_class, src_format, file_bytes, file_loop, file_open, data_start>>
    /\ UNCHANGED <<synVars, close_calls, file_closes>>
    /\ UNCHANGED outsideSources

FileClose_unguarded ==
    /\ src_class \in {"FileAudioSource", "WavFileAudioSource"}
    /\ close_calls < MaxCloses
    /\ close_calls' = close_calls + 1
    /\ file_closes' = file_closes + 1
    /\ file_open' = FALSE
    /\ UNCHANGED <<srcVars, synVars, file_bytes, file_loop, file_pos, data_start, file_out>>
    /\ UNCHANGED outsideSources

\* close() of either FileAudioSource: if self._file: close it, self._file = None
FileClose ==
    /\ src_class \in {"FileAudioSource", "WavFileAudioSource"}
    /\ close_calls < MaxCloses
    /\ close_calls' = close_calls + 1
    /\ IF file_open
       THEN file_closes' = file_closes + 1 /\ file_open' = FALSE
       ELSE UNCHANGED <<file_closes, file_open>>
    /\ UNCHANGED <<srcVars, synVars, file_bytes, file_loop, file_pos, data_start, file_out>>
    /\ UNCHANGED outsideSources

\* ---- SyntheticAudioSource ----
SinScale == 100        \* math.sin(...) is kept in units of 1/SinScale
AmpScale == 10         \* self.amplitude is kept in units of 1/AmpScale

\* the values math.sin takes, in units of 1/SinScale
SineValues == {-100, -37, 0, 37, 100}

\* the amplitudes a source is constructed with: 0.0, 0.5, 1.0 and 2.0
Amplitudes == {0, 5, 10, 20}

\* the num_frames a synthetic source is asked for
FrameCounts == {0, 1, 2}

\* int(x) of the quotient n / d, d > 0: truncation towards zero
TruncDiv(n, d) == IF n >= 0 THEN n \div d ELSE -((-n) \div d)

\* sample_value * 32767 truncated by int(), for sin = s / SinScale
Scaled(s, amp) == TruncDiv(s * amp * 32767, SinScale * AmpScale)

Clamp16_wraps(v) == ((v + 32768) % 65536) - 32768

\* max(-32768, min(32767, pcm_value))
Clamp16(v) == Max(-32768, Min(32767, v))

\* struct.pack('<h', v) for -32768 <= v <= 32767: two's complement
Pack_h(v) == PackH((v + 65536) % 65536)

RECURSIVE Repeat(_, _)
Repeat(bs, n) == IF n <= 0 THEN <<>> ELSE bs \o Repeat(bs, n - 1)

\* the bytes of the frames whose sine values are sines
RECURSIVE Frames(_, _, _)
Frames(sines, amp, channels) ==
    IF sines = <<>> THEN <<>>
    ELSE Repeat(Pack_h(Clamp16(Scaled(Head(sines), amp))), channels)
         \o Frames(Tail(sines), amp, channels)

SyntheticReadChunk_none_on_silence ==
    /\ src_class = "SyntheticAudioSource"
    /\ src_calls < MaxSrcCalls
    /\ src_calls' = src_calls + 1
    /\ \E num_frames \in FrameCounts :
          /\ src_req' = num_frames
          /\ src_reqs' = src_reqs \cup {num_frames}
          /\ IF num_frames <= 0 \/ amplitude = 0
             THEN /\ src_ret' = None
                  /\ src_raised' = FALSE
                  /\ syn_ideal' = <<>>
                  /\ syn_index' = <<>>
                  /\ UNCHANGED sample_count
             ELSE IF src_format.bits_per_sample # 16
             THEN /\ src_raised' = TRUE
                  /\ syn_ideal' = <<>>
                  /\ syn_index' = <<>>
                  /\ UNCHANGED <<src_ret, sample_count>>
             ELSE \E sines \in [1..num_frames -> SineValues] :
                     /\ syn_ideal' = [i \in 1..num_frames |-> Scaled(sines[i], amplitude)]
                     /\ syn_index' = [i \in 1..num_frames |-> sample_count + (i - 1)]
                     /\ src_ret' = Bytes(Frames(sines, amplitude, src_format.channels))
                     /\ src_raised' = FALSE
                     /\ sample_count' = sample_count + num_frames
    /\ UNCHANGED <<src_class, src_format, amplitude>>
    /\ UNCHANGED <<fileVars, close_calls, file_closes>>
    /\ UNCHANGED outsideSources

SyntheticReadChunk_counts_calls ==
    /\ src_class = "SyntheticAudioSource"
    /\ src_calls < MaxSrcCalls
    /\ src_calls' = src_calls + 1
    /\ \E num_frames \in FrameCounts :
          /\ src_req' = num_frames
          /\ src_reqs' = src_reqs \cup {num_frames}
          /\ IF num_frames <= 0
             THEN /\ src_ret' = None
                  /\ src_raised' = FALSE
                  /\ syn_ideal' = <<>>
                  /\ syn_index' = <<>>
                  /\ UNCHANGED sample_count
             ELSE IF src_format.bits_per_sample # 16
             THEN /\ src_raised' = TRUE
                  /\ syn_ideal' = <<>>
                  /\ syn_index' = <<>>
                  /\ UNCHANGED <<src_ret, sample_count>>
             ELSE \E sines \in [1..num_frames -> SineValues] :
                     /\ syn_ideal' = [i \in 1..num_frames |-> Scaled(sines[i], amplitude)]
                     /\ syn_index' = [i \in 1..num_frames |-> sample_count + (i - 1)]
                     /\ src_ret' = Bytes(Frames(sines, amplitude, src_format.channels))
                     /\ src_raised' = FALSE
                     /\ sample_count' = sample_count + 1
    /\ UNCHANGED <<src_class, src_format, amplitude>>
    /\ UNCHANGED <<fileVars, close_calls, file_closes>>
    /\ UNCHANGED outsideSources

\* SyntheticAudioSource.read_chunk(num_frames); the sine of each frame is any
\* of SineValues
SyntheticReadChunk ==
    /\ src_class = "SyntheticAudioSource"
    /\ src_calls < MaxSrcCalls
    /\ src_calls' = src_calls + 1
    /\ \E num_frames \in FrameCounts :
          /\ src_req' = num_frames
          /\ src_reqs' = src_reqs \cup {num_frames}
          /\ IF num_frames <= 0
             THEN /\ src_ret' = None
                  /\ src_raised' = FALSE
                  /\ syn_ideal' = <<>>
                  /\ syn_index' = <<>>
                  /\ UNCHANGED sample_count
             ELSE IF src_format.bits_per_sample # 16
             THEN \* ValueError out of the first frame
                  /\ src_raised' = TRUE
                  /\ syn_ideal' = <<>>
                  /\ syn_index' = <<>>
                  /\ UNCHANGED <<src_ret, sample_count>>
             ELSE \E sines \in [1..num_frames -> SineValues] :
                     /\ syn_ideal' = [i \in 1..num_frames |-> Scaled(sines[i], amplitude)]
                     /\ syn_index' = [i \in 1..num_frames |-> sample_count + (i - 1)]
                     /\ src_ret' = Bytes(Frames(sines, amplitude, src_format.channels))
                     /\ src_raised' = FALSE
                     /\ sample_count' = sample_count + num_frames
    /\ UNCHANGED <<src_class, src_format, amplitude>>
    /\ UNCHANGED <<fileVars, close_calls, file_closes>>
    /\ UNCHANGED outsideSources

\* SyntheticAudioSource.close(): pass
SyntheticClose ==
    /\ src_class = "SyntheticAudioSource"
    /\ close_calls < MaxCloses
    /\ close_calls' = close_calls + 1
    /\ UNCHANGED <<srcVars, synVars, fileVars, file_closes>>
    /\ UNCHANGED outsideSources

(***************************************************************************)
(* StreamingDiagnostics.  Times are kept in milliseconds: time.time() is   *)
(* clock, and the elapsed times of the series are differences of it.       *)
(***************************************************************************)
MaxDiagCalls == 3      \* calls made on one diagnostics object
MaxTicks == 1          \* advances of the clock in one run
ClockStart == 1000     \* time.time() when the object is constructed

summary_interval == 60
slow_read_threshold_ms == 51
slow_yield_threshold_ms == 100
small_chunk_threshold == 4096
large_gap_threshold_ms == 100
buffer_underrun_threshold == 1

\* StreamingDiagnostics(enabled=e)
NewDiagnostics(e) ==
    [enabled |-> e,
     chunk_sizes |-> <<>>, chunk_timestamps |-> <<>>,
     read_latencies |-> <<>>, yield_latencies |-> <<>>,
     thread_overheads |-> <<>>, inter_yield_gaps |-> <<>>,
     buffer_occupancies |-> <<>>,
     small_chunk_times |-> <<>>, slow_read_times |-> <<>>,
     slow_yield_times |-> <<>>, large_gap_times |-> <<>>,
     buffer_underrun_times |-> <<>>,
     total_bytes |-> 0, total_chunks |-> 0, overruns |-> 0,
     start_time |-> 0, last_summary_time |-> 0,
     last_chunk_time |-> 0, last_yield_time |-> 0]

\* the arguments the record calls are made with
ChunkSizes == {4095, 4096}
ReadLatencies == {51, 52}
YieldLatencies == {100, 101}
ThreadOverheads == {0, 1}
Occupancies == {0, 1}
TickSteps == {100, 101, 60000}

\* a call of fn that returns None
Called(fn) ==
    [call |-> fn, text |-> "", truth |-> FALSE, anomalies |-> 0, recommendations |-> {}]

NoReturn == Called("none")

DiagCall ==
    /\ diag_calls < MaxDiagCalls
    /\ diag_calls' = diag_calls + 1
    /\ UNCHANGED <<clock, diag_ticks>>
    /\ UNCHANGED outsideDiagnostics

\* time passes
Tick ==
    /\ diag_ticks < MaxTicks
    /\ diag_ticks' = diag_ticks + 1
    /\ \E d \in TickSteps : clock' = clock + d
    /\ UNCHANGED <<diag, diag_ret, diag_calls>>
    /\ UNCHANGED outsideDiagnostics

\* start()
DiagStart ==
    /\ DiagCall
    /\ diag' = [diag EXCEPT !.start_time = clock,
                            !.last_summary_time = clock,
                            !.last_chunk_time = clock]
    /\ diag_ret' = Called("start")

RecordOverrun_ungated ==
    /\ DiagCall
    /\ diag' = [diag EXCEPT !.overruns = @ + 1]
    /\ diag_ret' = Called("record_overrun")

RecordChunkRead_counts_full_chunks ==
    /\ DiagCall
    /\ \E size \in ChunkSizes, read_latency_ms \in ReadLatencies :
          IF ~diag.enabled THEN UNCHANGED diag
          ELSE LET elapsed == clock - diag.start_time
               IN  diag' = [diag EXCEPT
                     !.chunk_sizes = Append(@, size),
                     !.chunk_timestamps = Append(@, elapsed),
                     !.read_latencies = Append(@, read_latency_ms),
                     !.total_bytes = @ + size,
                     !.total_chunks = IF size < small_chunk_threshold THEN @ ELSE @ + 1,
                     !.small_chunk_times =
                         IF size < small_chunk_threshold THEN Append(@, elapsed) ELSE @,
                     !.slow_read_times =
                         IF read_latency_ms > slow_read_threshold_ms
                         THEN Append(@, elapsed) ELSE @,
                     !.last_chunk_time = clock]
    /\ diag_ret' = Called("record_chunk_read")

\* record_chunk_read(size, read_latency_ms)
RecordChunkRead ==
    /\ DiagCall
    /\ \E size \in ChunkSizes, read_latency_ms \in ReadLatencies :
          IF ~diag.enabled THEN UNCHANGED diag
          ELSE LET elapsed == clock - diag.start_time
               IN  diag' = [diag EXCEPT
                     !.chunk_sizes = Append(@, size),
                     !.chunk_timestamps = Append(@, elapsed),
                     !.read_latencies = Append(@, read_latency_ms),
                     !.total_bytes = @ + size,
                     !.total_chunks = @ + 1,
                     !.small_chunk_times =
                         IF size < small_chunk_threshold THEN Append(@, elapsed) ELSE @,
                     !.slow_read_times =
                         IF read_latency_ms > slow_read_threshold_ms
                         THEN Append(@, elapsed) ELSE @,
                     !.last_chunk_time = clock]
    /\ diag_ret' = Called("record_chunk_read")

RecordYield_at_threshold ==
    /\ DiagCall
    /\ \E yield_latency_ms \in YieldLatencies, thread_overhead_ms \in ThreadOverheads :
          IF ~diag.enabled THEN UNCHANGED diag
          ELSE LET elapsed == clock - diag.start_time
                   gap_ms == clock - diag.last_yield_time
                   gap == diag.last_yield_time > 0
               IN  diag' = [diag EXCEPT
                     !.yield_latencies = Append(@, yield_latency_ms),
                     !.thread_overheads =
                         IF thread_overhead_ms > 0
                         THEN Append(@, thread_overhead_ms) ELSE @,
                     !.slow_yield_times =
                         IF yield_latency_ms >= slow_yield_threshold_ms
                         THEN Append(@, elapsed) ELSE @,
                     !.inter_yield_gaps = IF gap THEN Append(@, gap_ms) ELSE @,
                     !.large_gap_times =
                         IF gap /\ gap_ms >= large_gap_threshold_ms
                         THEN Append(@, elapsed) ELSE @,
                     !.last_yield_time = clock]
    /\ diag_ret' = Called("record_yield")

\* record_yield(yield_latency_ms, thread_overhead_ms)
RecordYield ==
    /\ DiagCall
    /\ \E yield_latency_ms \in YieldLatencies, thread_overhead_ms \in ThreadOverheads :
          IF ~diag.enabled THEN UNCHANGED diag
          ELSE LET elapsed == clock - diag.start_time
                   gap_ms == clock - diag.last_yield_time
                   gap == diag.last_yield_time > 0
               IN  diag' = [diag EXCEPT
                     !.yield_latencies = Append(@, yield_latency_ms),
                     !.thread_overheads =
                         IF thread_overhead_ms > 0
                         THEN Append(@, thread_overhead_ms) ELSE @,
                     !.slow_yield_times =
                         IF yield_latency_ms > slow_yield_threshold_ms
                         THEN Append(@, elapsed) ELSE @,
                     !.inter_yield_gaps = IF gap THEN Append(@, gap_ms) ELSE @,
                     !.large_gap_times =
                         IF gap /\ gap_ms > large_gap_threshold_ms
                         THEN Append(@, elapsed) ELSE @,
                     !.last_yield_time = clock]
    /\ diag_ret' = Called("record_yield")

\* record_buffer_occupancy(occupancy)
RecordBufferOccupancy ==
    /\ DiagCall
    /\ \E occupancy \in Occupancies :
          IF ~diag.enabled THEN UNCHANGED diag
          ELSE diag' = [diag EXCEPT
                 !.buffer_occupancies = Append(@, occupancy),
                 !.buffer_underrun_times =
                     IF occupancy < buffer_underrun_threshold
                     THEN Append(@, clock - diag.start_time) ELSE @]
    /\ diag_ret' = Called("record_buffer_occupancy")

\* record_overrun()
RecordOverrun ==
    /\ DiagCall
    /\ IF ~diag.enabled THEN UNCHANGED diag
       ELSE diag' = [diag EXCEPT !.overruns = @ + 1]
    /\ diag_ret' = Called("record_overrun")

\* should_print_summary()
ShouldPrintSummary ==
    /\ DiagCall
    /\ diag_ret' = [call |-> "should_print_summary", text |-> "", anomalies |-> 0,
                    recommendations |-> {},
                    truth |-> /\ diag.enabled
                              /\ clock - diag.last_summary_time
                                    >= summary_interval * 1000]
    /\ UNCHANGED diag

\* the entries of times later than elapsed - interval
Recent(times, elapsed, interval) ==
    Cardinality({i \in 1..Len(times) : times[i] > elapsed - interval})

SlowYields_any_yield(d) == d.yield_latencies # <<>>

\* slow_yield_pct > 5, with slow_yield_pct 0 when no yield was recorded
SlowYields(d) ==
    /\ d.yield_latencies # <<>>
    /\ Len(d.slow_yield_times) * 100 > 5 * Len(d.yield_latencies)

PeriodicSummary_clears ==
    /\ DiagCall
    /\ IF ~diag.enabled \/ diag.chunk_sizes = <<>>
       THEN /\ diag_ret' = Called("periodic_summary")
            /\ UNCHANGED diag
       ELSE /\ diag' = [diag EXCEPT !.last_summary_time = clock,
                                    !.chunk_sizes = <<>>,
                                    !.chunk_timestamps = <<>>,
                                    !.read_latencies = <<>>]
            /\ diag_ret' = [Called("periodic_summary") EXCEPT
                               !.text = "=== Diagnostics ==="]

\* periodic_summary(): the text is kept as its first line, the anomaly total
\* as a number
PeriodicSummary ==
    /\ DiagCall
    /\ IF ~diag.enabled \/ diag.chunk_sizes = <<>>
       THEN /\ diag_ret' = Called("periodic_summary")
            /\ UNCHANGED diag
       ELSE LET elapsed == clock - diag.start_time
                interval == clock - diag.last_summary_time
                recent_underrun ==
                    IF SlowYields(diag)
                    THEN Recent(diag.buffer_underrun_times, elapsed, interval) ELSE 0
                total_anomalies ==
                    Recent(diag.small_chunk_times, elapsed, interval)
                    + Recent(diag.slow_read_times, elapsed, interval)
                    + Recent(diag.slow_yield_times, elapsed, interval)
                    + Recent(diag.large_gap_times, elapsed, interval)
                    + recent_underrun
            IN  /\ diag' = [diag EXCEPT !.last_summary_time = clock]
                /\ diag_ret' = [call |-> "periodic_summary",
                                text |-> "=== Diagnostics ===",
                                truth |-> FALSE, anomalies |-> total_anomalies,
                                recommendations |-> {}]

\* the entries of data that satisfy Test
Count(data, Test(_)) == Cardinality({i \in 1..Len(data) : Test(data[i])})

\* bytes per second of 48 kHz, stereo, 16-bit audio
expected_rate == 48000 * 2 * 2

\* _generate_recommendations(): each recommendation is kept as its subject.
\* elapsed is in milliseconds: actual_rate < expected_rate * 0.95 is
\* total_bytes * 1000 / elapsed < expected_rate * 95 / 100, and both sides
\* are multiplied by elapsed / 100
_generate_recommendations(d, now) ==
    LET small_count == Count(d.chunk_sizes, LAMBDA size : size < small_chunk_threshold)
        elapsed == now - d.start_time
    IN  (IF d.chunk_sizes # <<>> /\ small_count * 100 > Len(d.chunk_sizes)
         THEN {"small chunks"}
         ELSE IF d.chunk_sizes # <<>> /\ small_count > 0
         THEN {"minor partial reads"} ELSE {})
        \cup (IF d.read_latencies # <<>> /\ Len(d.slow_read_times) > 10
              THEN {"slow ALSA reads"} ELSE {})
        \cup (IF d.overruns > 0 THEN {"ALSA overruns"} ELSE {})
        \cup (IF Len(d.large_gap_times) > 0
              THEN IF /\ d.inter_yield_gaps # <<>>
                      /\ Len(d.large_gap_times) * 100 > Len(d.inter_yield_gaps)
                   THEN {"large gaps"} ELSE {"minor timing jitter"}
              ELSE {})
        \cup (IF Len(d.buffer_underrun_times) > 0 /\ SlowYields(d)
              THEN {"buffer underruns"} ELSE {})
        \cup (IF /\ d.total_bytes > 0
                 /\ d.start_time > 0
                 /\ d.total_bytes * 10 < ((expected_rate * 95) \div 10000) * elapsed
              THEN {"throughput"} ELSE {})

\* final_report(): the text is kept as its title and its recommendations
FinalReport ==
    /\ DiagCall
    /\ diag_ret' =
          IF ~diag.enabled THEN Called("final_report")
          ELSE IF clock - diag.start_time = 0
          THEN [Called("final_report") EXCEPT !.text = "No data collected"]
          ELSE [Called("final_report") EXCEPT
                   !.text = "STREAMING DIAGNOSTICS REPORT",
                   !.recommendations = _generate_recommendations(diag, clock)]
    /\ UNCHANGED diag

(***************************************************************************)
(* StreamingDiagnostics._percentile                                        *)
(***************************************************************************)
MaxSamples == 3
SampleValues == {10, 20, 30}
Percentiles == 0..100

\* the lists handed to _percentile: every list of up to MaxSamples samples and
\* one longer list of distinct samples, out of order
SampleLists ==
    UNION {[1..n -> SampleValues] : n \in 0..MaxSamples}
        \cup {<<10, 20, 30, 40, 50>>, <<30, 50, 10, 40, 20>>}

\* sorted(data)
sorted(data) == SortSeq(data, LAMBDA a, b : a < b)

_percentile_unsorted(data, percentile) ==
    IF data = <<>> THEN 0
    ELSE LET index == (Len(data) * percentile) \div 100
         IN  data[Min(index, Len(data) - 1) + 1]

\* _percentile(data, percentile): int() of the non-negative quotient is its
\* floor; sorted_data[index] is the element at position index + 1
_percentile(data, percentile) ==
    IF data = <<>> THEN 0
    ELSE LET sorted_data == sorted(data)
             index == (Len(sorted_data) * percentile) \div 100
         IN  sorted_data[Min(index, Len(sorted_data) - 1) + 1]

\* a first call _percentile(data, percentile); data is left as it was, the
\* function works on a sorted copy
PercentileLow ==
    /\ pct_low = -1
    /\ \E percentile \in Percentiles :
          /\ pct_low' = percentile
          /\ pct_low_ret' = _percentile(pct_data, percentile)
    /\ UNCHANGED <<pct_data, pct_high, pct_high_ret>>
    /\ UNCHANGED outsidePercentile

\* a second call on the same data
PercentileHigh ==
    /\ pct_low # -1
    /\ pct_high = -1
    /\ \E percentile \in Percentiles :
          /\ pct_high' = percentile
          /\ pct_high_ret' = _percentile(pct_data, percentile)
    /\ UNCHANGED <<pct_data, pct_low, pct_low_ret>>
    /\ UNCHANGED outsidePercentile

(***************************************************************************)
(* TurnTablerStreamer.run (streaming.py) and StreamingTest.run_test, the   *)
(* copy of it in tests/integration/test_streaming_e2e.py                   *)
(***************************************************************************)
MaxReadyPolls == 2
MaxStatePolls == 2
MaxSeconds == 2

\* the audio_source argument and what it meets: a source that can be built
\* ("synthetic", "file", "usb"), a cause setup_audio_source reports by
\* returning False, or a path that exists and cannot be opened
SourcesBuilt == {"synthetic", "file", "usb"}
SetupFailures ==
    {"unknown", "file_missing", "usb_no_alsa", "usb_no_device", "usb_open_fails"}
SourceArgs == SourcesBuilt \cup SetupFailures \cup {"file_unopenable"}

\* SoCo is not installed, finds or reaches no device, or gives a device
SoCoOutcomes == {"not_installed", "no_device", "device"}

\* current_transport_state as the device reports it
TransportStates == {"PLAYING", "STOPPED", "TRANSITIONING"}

\* test_duration_seconds: -1 for None
Durations == {-1} \cup (0..MaxSeconds)

Entries == {"run", "run_test"}

NewStreamer(duration) ==
    [audio_source |-> "None", server |-> FALSE, sonos |-> FALSE, start_time |-> -1,
     stop_requested |-> FALSE, test_duration_seconds |-> duration]

\* what a call has returned: nothing yet, a StreamingStats or a bool
NoStats ==
    [kind |-> "none", value |-> FALSE, duration_seconds |-> 0, final_state |-> "",
     errors |-> <<>>]
StreamingStats(duration_seconds, final_state, errors) ==
    [kind |-> "StreamingStats", value |-> FALSE, duration_seconds |-> duration_seconds,
     final_state |-> final_state, errors |-> errors]
Bool(value) == [NoStats EXCEPT !.kind = "bool", !.value = value]

\* run(audio_source) or run_test(audio_source) just entered: errors = [],
\* final_state = "UNKNOWN"
NewCall(entry, audio_source) ==
    [entry |-> entry, pc |-> "setup_audio_source", audio_source |-> audio_source,
     errors |-> <<>>, final_state |-> "UNKNOWN", polls |-> 0, ret |-> NoStats]

NewWorld(soco) ==
    [soco |-> soco, now |-> ClockStart, http_thread |-> FALSE, server_ready |-> FALSE,
     device_contacted |-> FALSE, play_uri_calls |-> 0, device_state |-> "none",
     monitor_entered |-> FALSE, source_closes |-> 0,
     setup_sonos |-> "not called", start_streaming |-> "not called",
     stop_raised |-> FALSE]

\* the early returns: run returns StreamingStats(0, final_state, [error]),
\* run_test returns False
EarlyReturn(final_state, error) ==
    [run EXCEPT !.pc = "returned",
                !.ret = IF run.entry = "run"
                        THEN StreamingStats(0, final_state, <<error>>)
                        ELSE Bool(FALSE)]

\* errors.append(error), which run_test does not do
Appended(error) == IF run.entry = "run" THEN Append(run.errors, error) ELSE run.errors

SetupAudioSource_continues ==
    /\ run.pc = "setup_audio_source"
    /\ streamer' = [streamer EXCEPT
                       !.audio_source = IF run.audio_source \in SourcesBuilt
                                        THEN "open" ELSE @]
    /\ run' = [run EXCEPT !.pc = "setup_streaming_server"]
    /\ UNCHANGED world
    /\ UNCHANGED outsideSession

\* if not self.setup_audio_source(audio_source, device=device): return ...
\* FileAudioSource.__init__ opens the file: for a path that exists and cannot
\* be opened, open() raises OSError, which nothing in run catches
SetupAudioSource ==
    /\ run.pc = "setup_audio_source"
    /\ IF run.audio_source \in SourcesBuilt
       THEN /\ streamer' = [streamer EXCEPT !.audio_source = "open"]
            /\ run' = [run EXCEPT !.pc = "setup_streaming_server"]
       ELSE IF run.audio_source \in SetupFailures
       THEN /\ run' = EarlyReturn("SETUP_FAILED", "Audio source setup failed")
            /\ UNCHANGED streamer
       ELSE /\ run' = [run EXCEPT !.pc = "raised"]
            /\ UNCHANGED streamer
    /\ UNCHANGED world
    /\ UNCHANGED outsideSession

\* if not self.setup_streaming_server(): return ...
\* building the WAVStreamingServer succeeds or raises
SetupStreamingServer ==
    /\ run.pc = "setup_streaming_server"
    /\ \E built \in BOOLEAN :
          IF streamer.audio_source # "None" /\ built
          THEN /\ streamer' = [streamer EXCEPT !.server = TRUE]
               /\ run' = [run EXCEPT !.pc = "start_http_server_background"]
          ELSE /\ run' = EarlyReturn("SETUP_FAILED", "Server setup failed")
               /\ UNCHANGED streamer
    /\ UNCHANGED world
    /\ UNCHANGED outsideSession

\* start_http_server_background up to thread.start()
StartHttpServer ==
    /\ run.pc = "start_http_server_background"
    /\ IF streamer.server
       THEN /\ world' = [world EXCEPT !.http_thread = TRUE]
            /\ run' = [run EXCEPT !.pc = "wait_for_server_ready", !.polls = 0]
       ELSE /\ run' = EarlyReturn("SERVER_FAILED", "HTTP server failed to start")
            /\ UNCHANGED world
    /\ UNCHANGED streamer
    /\ UNCHANGED outsideSession

ServerReadyTimeout_continues ==
    /\ run.pc = "wait_for_server_ready"
    /\ run.polls = MaxReadyPolls
    /\ run' = [run EXCEPT !.pc = "setup_sonos"]
    /\ UNCHANGED <<streamer, world>>
    /\ UNCHANGED outsideSession

\* _wait_for_server_ready: one connect_ex to the server port; 0 ends the wait
\* with True, anything else is followed by time.sleep(0.2)
ServerReadyPoll ==
    /\ run.pc = "wait_for_server_ready"
    /\ run.polls < MaxReadyPolls
    /\ \E connected \in BOOLEAN :
          IF connected /\ world.http_thread
          THEN /\ world' = [world EXCEPT !.server_ready = TRUE]
               /\ run' = [run EXCEPT !.pc = "setup_sonos"]
          ELSE /\ run' = [run EXCEPT !.polls = @ + 1]
               /\ UNCHANGED world
    /\ UNCHANGED streamer
    /\ UNCHANGED outsideSession

\* the timeout has passed: _wait_for_server_ready returns False and the
\* caller returns
ServerReadyTimeout ==
    /\ run.pc = "wait_for_server_ready"
    /\ run.polls = MaxReadyPolls
    /\ run' = EarlyReturn("SERVER_FAILED", "HTTP server failed to start")
    /\ UNCHANGED <<streamer, world>>
    /\ UNCHANGED outsideSession

\* if not self.setup_sonos(): errors.append("Sonos setup failed")
SetupSonos ==
    /\ run.pc = "setup_sonos"
    /\ IF world.soco = "not_installed"
       THEN /\ run' = [run EXCEPT !.pc = "start_streaming"]
            /\ world' = [world EXCEPT !.setup_sonos = "True"]
            /\ UNCHANGED streamer
       ELSE IF world.soco = "no_device"
       THEN /\ run' = [run EXCEPT !.pc = "start_streaming",
                                  !.errors = Appended("Sonos setup failed")]
            /\ world' = [world EXCEPT !.device_contacted = TRUE, !.setup_sonos = "False"]
            /\ UNCHANGED streamer
       ELSE /\ run' = [run EXCEPT !.pc = "start_streaming"]
            /\ world' = [world EXCEPT !.device_contacted = TRUE, !.setup_sonos = "True"]
            /\ streamer' = [streamer EXCEPT !.sonos = TRUE]
    /\ UNCHANGED outsideSession

\* start_streaming up to play_uri: without a device it returns True at once;
\* reading volume and mute or play_uri itself may raise, which makes it
\* return False
StartStreaming ==
    /\ run.pc = "start_streaming"
    /\ IF ~streamer.sonos
       THEN /\ run' = [run EXCEPT !.pc = "monitor_streaming"]
            /\ world' = [world EXCEPT !.start_streaming = "True"]
       ELSE \E outcome \in {"raised before play_uri", "play_uri raised", "played"} :
               /\ world' = [world EXCEPT
                               !.play_uri_calls =
                                   IF outcome = "raised before play_uri" THEN @ ELSE @ + 1,
                               !.start_streaming =
                                   IF outcome = "played" THEN @ ELSE "False"]
               /\ run' = IF outcome = "played"
                         THEN [run EXCEPT !.pc = "state_transitions", !.polls = 0]
                         ELSE [run EXCEPT !.pc = "monitor_streaming",
                                          !.errors = Appended("Sonos streaming failed")]
    /\ UNCHANGED streamer
    /\ UNCHANGED outsideSession

\* one round of the for loop of start_streaming: time.sleep(1), then the
\* transport state is read; PLAYING returns True, STOPPED returns False, any
\* other state or an exception goes to the next round
StateTransition ==
    /\ run.pc = "state_transitions"
    /\ run.polls < MaxStatePolls
    /\ \E state \in TransportStates \cup {"raised"} :
          /\ world' = [world EXCEPT !.now = @ + 1,
                                    !.device_state = IF state = "raised" THEN @ ELSE state,
                                    !.start_streaming = IF state = "PLAYING" THEN "True"
                                                        ELSE IF state = "STOPPED" THEN "False"
                                                        ELSE @]
          /\ run' = IF state = "PLAYING"
                    THEN [run EXCEPT !.pc = "monitor_streaming"]
                    ELSE IF state = "STOPPED"
                    THEN [run EXCEPT !.pc = "monitor_streaming",
                                     !.errors = Appended("Sonos streaming failed")]
                    ELSE [run EXCEPT !.polls = @ + 1]
    /\ UNCHANGED streamer
    /\ UNCHANGED outsideSession

\* the for loop of start_streaming has run out: return True
StateTransitionsDone ==
    /\ run.pc = "state_transitions"
    /\ run.polls = MaxStatePolls
    /\ run' = [run EXCEPT !.pc = "monitor_streaming"]
    /\ world' = [world EXCEPT !.start_streaming = "True"]
    /\ UNCHANGED streamer
    /\ UNCHANGED outsideSession

\* KeyboardInterrupt while the call sleeps in _wait_for_server_ready or in
\* start_streaming: 'except Exception' does not catch it and run has no
\* handler around these calls
StartupInterrupted ==
    /\ run.pc \in {"wait_for_server_ready", "state_transitions"}
    /\ run' = [run EXCEPT !.pc = "raised"]
    /\ UNCHANGED <<streamer, world>>
    /\ UNCHANGED outsideSession

\* monitor_streaming: self.start_time = time.time()
MonitorStart ==
    /\ run.pc = "monitor_streaming"
    /\ streamer' = [streamer EXCEPT !.start_time = world.now]
    /\ world' = [world EXCEPT !.monitor_entered = TRUE]
    /\ run' = [run EXCEPT !.pc = "monitor_loop"]
    /\ UNCHANGED outsideSession

\* the loop goes on: not stopped, and the duration, if there is one, not reached
MonitorGoesOn ==
    /\ ~streamer.stop_requested
    /\ \/ streamer.test_duration_seconds = -1
       \/ streamer.test_duration_seconds - (world.now - streamer.start_time) > 0

\* one round of the loop of monitor_streaming, ending in time.sleep(1)
MonitorSleep ==
    /\ run.pc = "monitor_loop"
    /\ MonitorGoesOn
    /\ world.now - streamer.start_time < MaxSeconds
    /\ world' = [world EXCEPT !.now = @ + 1]
    /\ UNCHANGED <<streamer, run>>
    /\ UNCHANGED outsideSession

MonitorExit_leaves_flag ==
    /\ run.pc = "monitor_loop"
    /\ ~MonitorGoesOn
    /\ run' = [run EXCEPT !.pc = "final_state"]
    /\ UNCHANGED <<streamer, world>>
    /\ UNCHANGED outsideSession

\* the loop ends by its condition or by break; finally: stop_requested = True
MonitorExit ==
    /\ run.pc = "monitor_loop"
    /\ ~MonitorGoesOn
    /\ streamer' = [streamer EXCEPT !.stop_requested = TRUE]
    /\ run' = [run EXCEPT !.pc = "final_state"]
    /\ UNCHANGED world
    /\ UNCHANGED outsideSession

\* KeyboardInterrupt inside the loop: caught, finally: stop_requested = True
MonitorInterrupted ==
    /\ run.pc = "monitor_loop"
    /\ streamer' = [streamer EXCEPT !.stop_requested = TRUE]
    /\ run' = [run EXCEPT !.pc = "final_state"]
    /\ UNCHANGED world
    /\ UNCHANGED outsideSession

\* another thread sets stop_requested
RequestStop ==
    /\ run.pc \notin {"returned", "raised"}
    /\ ~streamer.stop_requested
    /\ streamer' = [streamer EXCEPT !.stop_requested = TRUE]
    /\ UNCHANGED <<run, world>>
    /\ UNCHANGED outsideSession

\* run: final_state is the transport state the device reports now, UNKNOWN
\* if asking raises; run_test has no such step
FinalState ==
    /\ run.pc = "final_state"
    /\ IF run.entry = "run" /\ streamer.sonos
       THEN \E state \in TransportStates \cup {"raised"} :
               /\ run' = [run EXCEPT
                             !.pc = "cleanup",
                             !.final_state = IF state = "raised" THEN "UNKNOWN" ELSE state]
               /\ world' = [world EXCEPT
                               !.device_state = IF state = "raised" THEN @ ELSE state]
       ELSE /\ run' = [run EXCEPT !.pc = "cleanup"]
            /\ UNCHANGED world
    /\ UNCHANGED streamer
    /\ UNCHANGED outsideSession

Cleanup_stop_failure_ends_cleanup ==
    /\ run.pc = "cleanup"
    /\ \E stop_raised \in BOOLEAN :
          LET errors == IF streamer.sonos /\ stop_raised
                        THEN Appended("Stop failed") ELSE run.errors
              elapsed == IF streamer.start_time # -1
                         THEN world.now - streamer.start_time ELSE 0
          IN  /\ run' = [run EXCEPT
                            !.pc = "returned",
                            !.errors = errors,
                            !.ret = IF run.entry = "run"
                                    THEN StreamingStats(elapsed, run.final_state, errors)
                                    ELSE Bool(TRUE)]
              /\ IF streamer.sonos /\ stop_raised
                 THEN /\ world' = [world EXCEPT !.stop_raised = TRUE]
                      /\ UNCHANGED streamer
                 ELSE IF streamer.audio_source # "None"
                 THEN /\ streamer' = [streamer EXCEPT !.audio_source = "closed"]
                      /\ world' = [world EXCEPT !.source_closes = @ + 1]
                 ELSE UNCHANGED <<streamer, world>>
    /\ UNCHANGED outsideSession

\* cleanup and return: self.sonos.stop() in a try, self.audio_source.close(),
\* then StreamingStats(elapsed, final_state, errors) or True
Cleanup ==
    /\ run.pc = "cleanup"
    /\ \E stop_raised \in BOOLEAN :
          LET errors == IF streamer.sonos /\ stop_raised
                        THEN Appended("Stop failed") ELSE run.errors
              elapsed == IF streamer.start_time # -1
                         THEN world.now - streamer.start_time ELSE 0
          IN  /\ run' = [run EXCEPT
                            !.pc = "returned",
                            !.errors = errors,
                            !.ret = IF run.entry = "run"
                                    THEN StreamingStats(elapsed, run.final_state, errors)
                                    ELSE Bool(TRUE)]
              /\ IF streamer.audio_source # "None"
                 THEN /\ streamer' = [streamer EXCEPT !.audio_source = "closed"]
                      /\ world' = [world EXCEPT !.source_closes = @ + 1,
                                                !.stop_raised = streamer.sonos /\ stop_raised]
                 ELSE /\ world' = [world EXCEPT
                                       !.stop_raised = streamer.sonos /\ stop_raised]
                      /\ UNCHANGED streamer
    /\ UNCHANGED outsideSession

(***************************************************************************)
(* streaming_icy.stream_with_icy_metadata: the generator of the response.  *)
(* Audio is counted in bytes; an item yielded is an audio chunk of         *)
(* audio_bytes bytes or the metadata block.                                *)
(***************************************************************************)
ICY_METAINT == 16000
chunk_size == 4096
MaxIcyItems == 12

\* the lengths AUDIO_FILE may have
IcyFileSizes == {0, 1000, 4096, 10000, 16000, 16384, 20000, 40000}

\* headers={"icy-metaint": str(ICY_METAINT), ...}
icy_metaint == ICY_METAINT

AudioChunk(n) == [kind |-> "audio", audio_bytes |-> n]
metadata_block == [kind |-> "metadata", audio_bytes |-> 0]

\* audio_chunk = f.read(chunk_size), not empty: bytes_sent += len(audio_chunk);
\* yield audio_chunk
IcyReadChunk ==
    /\ icy_pc = "reading"
    /\ icy_pos < icy_size
    /\ Len(icy_out) < MaxIcyItems
    /\ LET n == Min(chunk_size, icy_size - icy_pos)
       IN  /\ icy_pos' = icy_pos + n
           /\ icy_bytes_sent' = icy_bytes_sent + n
           /\ icy_out' = Append(icy_out, AudioChunk(n))
    /\ icy_pc' = "yielded"
    /\ UNCHANGED icy_size
    /\ UNCHANGED outsideIcy

\* the generator is resumed with bytes_sent >= ICY_METAINT: yield metadata_block;
\* bytes_sent = 0
IcyInsertMetadata ==
    /\ icy_pc = "yielded"
    /\ icy_bytes_sent >= ICY_METAINT
    /\ icy_out' = Append(icy_out, metadata_block)
    /\ icy_bytes_sent' = 0
    /\ icy_pc' = "reading"
    /\ UNCHANGED <<icy_size, icy_pos>>
    /\ UNCHANGED outsideIcy

\* the generator is resumed with bytes_sent < ICY_METAINT: on to the next read
IcyResume ==
    /\ icy_pc = "yielded"
    /\ icy_bytes_sent < ICY_METAINT
    /\ icy_pc' = "reading"
    /\ UNCHANGED <<icy_size, icy_pos, icy_bytes_sent, icy_out>>
    /\ UNCHANGED outsideIcy

\* f.read returns b'': break, bytes_sent = 0, and the file is opened again
IcyFileEnd ==
    /\ icy_pc = "reading"
    /\ icy_pos = icy_size
    /\ icy_pos' = 0
    /\ icy_bytes_sent' = 0
    /\ UNCHANGED <<icy_size, icy_out, icy_pc>>
    /\ UNCHANGED outsideIcy

\* open or read raises: except Exception: break, the generator is finished
IcyError ==
    /\ icy_pc = "reading"
    /\ icy_pc' = "done"
    /\ UNCHANGED <<icy_size, icy_pos, icy_bytes_sent, icy_out>>
    /\ UNCHANGED outsideIcy

(***************************************************************************)
(* WAVStreamingServer._generate_stream                                     *)
(***************************************************************************)
\* header = generate_wav_header(self.wav_format, infinite=True); yield header
StreamStart(c) ==
    /\ pc[c] = "start"
    /\ loop_task = 0
    /\ delivered' = [delivered EXCEPT
                        ![c] = Append(@, generate_wav_header(wav_format, TRUE))]
    /\ pc' = [pc EXCEPT ![c] = "header_yielded"]
    /\ UNCHANGED <<stream, chunk, chunk_count, obtained, pulls, loop_task>>
    /\ UNCHANGED capVars
    /\ UNCHANGED outsideStream

StreamYield_header_each(c) ==
    /\ pc[c] = "returned"
    /\ loop_task = c
    /\ ~chunk[c].is_none
    /\ delivered' = [delivered EXCEPT
           ![c] = @ \o <<generate_wav_header(wav_format, TRUE), chunk[c].bytes>>]
    /\ pc' = [pc EXCEPT ![c] = "chunk_yielded"]
    /\ loop_task' = 0
    /\ UNCHANGED <<stream, chunk, chunk_count, obtained, pulls>>
    /\ UNCHANGED capVars
    /\ UNCHANGED outsideStream

StreamYield_framed(c) ==
    /\ pc[c] = "returned"
    /\ loop_task = c
    /\ ~chunk[c].is_none
    /\ delivered' = [delivered EXCEPT
           ![c] = Append(@, <<Len(chunk[c].bytes)>> \o chunk[c].bytes)]
    /\ pc' = [pc EXCEPT ![c] = "chunk_yielded"]
    /\ loop_task' = 0
    /\ UNCHANGED <<stream, chunk, chunk_count, obtained, pulls>>
    /\ UNCHANGED capVars
    /\ UNCHANGED outsideStream

StreamYield_broadcast(c) ==
    /\ pc[c] = "returned"
    /\ loop_task = c
    /\ ~chunk[c].is_none
    /\ delivered' = [d \in Conns |->
                        IF d = c \/ pc[d] \in {"header_yielded", "chunk_yielded", "slept"}
                        THEN Append(delivered[d], chunk[c].bytes)
                        ELSE delivered[d]]
    /\ pc' = [pc EXCEPT ![c] = "chunk_yielded"]
    /\ loop_task' = 0
    /\ UNCHANGED <<stream, chunk, chunk_count, obtained, pulls>>
    /\ UNCHANGED capVars
    /\ UNCHANGED outsideStream

\* chunk is not None: yield chunk
StreamYield(c) ==
    /\ pc[c] = "returned"
    /\ loop_task = c
    /\ ~chunk[c].is_none
    /\ delivered' = [delivered EXCEPT ![c] = Append(@, chunk[c].bytes)]
    /\ pc' = [pc EXCEPT ![c] = "chunk_yielded"]
    /\ loop_task' = 0
    /\ UNCHANGED <<stream, chunk, chunk_count, obtained, pulls>>
    /\ UNCHANGED capVars
    /\ UNCHANGED outsideStream

StreamBreak_continue(c) ==
    /\ pc[c] = "returned"
    /\ loop_task = c
    /\ chunk[c].is_none
    /\ pc' = [pc EXCEPT ![c] = "slept"]
    /\ loop_task' = 0
    /\ UNCHANGED <<stream, chunk, chunk_count, delivered, obtained, pulls>>
    /\ UNCHANGED capVars
    /\ UNCHANGED outsideStream

\* chunk is None: break, finally
StreamBreak(c) ==
    /\ pc[c] = "returned"
    /\ loop_task = c
    /\ chunk[c].is_none
    /\ pc' = [pc EXCEPT ![c] = "done"]
    /\ loop_task' = 0
    /\ UNCHANGED <<stream, chunk, chunk_count, delivered, obtained, pulls>>
    /\ UNCHANGED capVars
    /\ UNCHANGED outsideStream

\* resumed after yield chunk: chunk_count += 1; await asyncio.sleep(0)
StreamResume(c) ==
    /\ pc[c] = "chunk_yielded"
    /\ loop_task = 0
    /\ chunk_count' = [chunk_count EXCEPT ![c] = @ + 1]
    /\ pc' = [pc EXCEPT ![c] = "slept"]
    /\ UNCHANGED <<stream, chunk, delivered, obtained, pulls, loop_task>>
    /\ UNCHANGED capVars
    /\ UNCHANGED outsideStream

\* the client goes away while the generator is suspended: the transport
\* closes the generator, only its finally block runs
StreamDisconnect(c) ==
    /\ pc[c] \in {"header_yielded", "chunk_yielded", "slept"}
    /\ pc' = [pc EXCEPT ![c] = "done"]
    /\ UNCHANGED <<stream, chunk, chunk_count, delivered, obtained, pulls, loop_task>>
    /\ UNCHANGED capVars
    /\ UNCHANGED outsideStream

(***************************************************************************)
(* Ring Buffer (producer/consumer).  One producer thread reads chunks from *)
(* its source and appends them; one consumer calls take(); the session     *)
(* calls start_producer, prefill and stop_producer.  The lock is held for  *)
(* each append and each pop only, so each of those is one step.            *)
(***************************************************************************)
BufferSize == 2        \* buffer_size, the pre-fill depth
MaxPolls == 2          \* sleeps a take() makes before it reports an underrun
PrefillTimeout == 2    \* time units prefill() waits
MaxChunks == 2 * BufferSize + 2   \* chunks the producer's source supplies

Capacity == 2 * BufferSize

Elems(q) == {q[i] : i \in 1..Len(q)}

\* start_producer(): spawn the producer; a no-op while it is running
StartProducer ==
    /\ rb_state \in {"Idle", "Filling", "Ready"}
    /\ IF rb_state = "Idle"
       THEN rb_state' = "Filling" /\ rb_prod' = "loop"
       ELSE UNCHANGED <<rb_state, rb_prod>>
    /\ UNCHANGED <<rb_buf, rb_ready, rb_stop, rb_chunk, rb_next, rb_take, rb_polls,
                   rb_result, rb_occupancy, rb_prefill, rb_waited, rb_appended,
                   rb_taken, rb_evicted, rb_peak>>
    /\ UNCHANGED outsideRing

\* producer loop: the stop flag is seen at the top of an iteration
ProducerSeesStop ==
    /\ rb_prod = "loop"
    /\ rb_stop
    /\ rb_prod' = "exited"
    /\ UNCHANGED <<rb_state, rb_buf, rb_ready, rb_stop, rb_chunk, rb_next, rb_take,
                   rb_polls, rb_result, rb_occupancy, rb_prefill, rb_waited,
                   rb_appended, rb_taken, rb_evicted, rb_peak>>
    /\ UNCHANGED outsideRing

\* producer loop: read_chunk returns a chunk (a blocking read, outside the lock)
ProducerRead ==
    /\ rb_prod = "loop"
    /\ ~rb_stop
    /\ rb_next <= MaxChunks
    /\ rb_chunk' = rb_next
    /\ rb_next' = rb_next + 1
    /\ rb_prod' = "have_chunk"
    /\ UNCHANGED <<rb_state, rb_buf, rb_ready, rb_stop, rb_take, rb_polls, rb_result,
                   rb_occupancy, rb_prefill, rb_waited, rb_appended, rb_taken,
                   rb_evicted, rb_peak>>
    /\ UNCHANGED outsideRing

\* producer loop: read_chunk returns end-of-stream, the loop ends
ProducerEndOfStream ==
    /\ rb_prod = "loop"
    /\ ~rb_stop
    /\ rb_prod' = "exited"
    /\ rb_state' = "Draining"
    /\ UNCHANGED <<rb_buf, rb_ready, rb_stop, rb_chunk, rb_next, rb_take, rb_polls,
                   rb_result, rb_occupancy, rb_prefill, rb_waited, rb_appended,
                   rb_taken, rb_evicted, rb_peak>>
    /\ UNCHANGED outsideRing

ProducerAppend_drop_newest ==
    /\ rb_prod = "have_chunk"
    /\ LET full == Len(rb_buf) = Capacity
           buf2 == IF full THEN rb_buf ELSE Append(rb_buf, rb_chunk)
       IN  /\ rb_buf' = buf2
           /\ rb_evicted' = IF full THEN rb_evicted \cup {rb_chunk} ELSE rb_evicted
           /\ rb_ready' = (rb_ready \/ Len(buf2) >= BufferSize)
           /\ rb_state' = IF rb_state = "Filling" /\ Len(buf2) >= BufferSize
                          THEN "Ready" ELSE rb_state
           /\ rb_peak' = Max(rb_peak, Len(buf2))
    /\ rb_appended' = Append(rb_appended, rb_chunk)
    /\ rb_chunk' = 0
    /\ rb_prod' = "loop"
    /\ UNCHANGED <<rb_stop, rb_next, rb_take, rb_polls, rb_result, rb_occupancy,
                   rb_prefill, rb_waited, rb_taken>>
    /\ UNCHANGED outsideRing

ProducerAppend_ready_level ==
    /\ rb_prod = "have_chunk"
    /\ LET full == Len(rb_buf) = Capacity
           buf2 == Append(IF full THEN Tail(rb_buf) ELSE rb_buf, rb_chunk)
       IN  /\ rb_buf' = buf2
           /\ rb_evicted' = IF full THEN rb_evicted \cup {Head(rb_buf)} ELSE rb_evicted
           /\ rb_ready' = (Len(buf2) >= BufferSize)
           /\ rb_state' = IF rb_state = "Filling" /\ Len(buf2) >= BufferSize
                          THEN "Ready" ELSE rb_state
           /\ rb_peak' = Max(rb_peak, Len(buf2))
    /\ rb_appended' = Append(rb_appended, rb_chunk)
    /\ rb_chunk' = 0
    /\ rb_prod' = "loop"
    /\ UNCHANGED <<rb_stop, rb_next, rb_take, rb_polls, rb_result, rb_occupancy,
                   rb_prefill, rb_waited, rb_taken>>
    /\ UNCHANGED outsideRing

\* producer loop: under the lock, evict the oldest chunk if the buffer is
\* full, append, and set the ready flag once the length reaches buffer_size
ProducerAppend ==
    /\ rb_prod = "have_chunk"
    /\ LET full == Len(rb_buf) = Capacity
           buf2 == Append(IF full THEN Tail(rb_buf) ELSE rb_buf, rb_chunk)
       IN  /\ rb_buf' = buf2
           /\ rb_evicted' = IF full THEN rb_evicted \cup {Head(rb_buf)} ELSE rb_evicted
           /\ rb_ready' = (rb_ready \/ Len(buf2) >= BufferSize)
           /\ rb_state' = IF rb_state = "Filling" /\ Len(buf2) >= BufferSize
                          THEN "Ready" ELSE rb_state
           /\ rb_peak' = Max(rb_peak, Len(buf2))
    /\ rb_appended' = Append(rb_appended, rb_chunk)
    /\ rb_chunk' = 0
    /\ rb_prod' = "loop"
    /\ UNCHANGED <<rb_stop, rb_next, rb_take, rb_polls, rb_result, rb_occupancy,
                   rb_prefill, rb_waited, rb_taken>>
    /\ UNCHANGED outsideRing

\* stop_producer(): set the stop flag and join the producer for a bounded time
StopProducer ==
    /\ rb_state \in {"Filling", "Ready", "Draining"}
    /\ rb_stop' = TRUE
    /\ rb_state' = "Stopped"
    /\ UNCHANGED <<rb_buf, rb_ready, rb_prod, rb_chunk, rb_next, rb_take, rb_polls,
                   rb_result, rb_occupancy, rb_prefill, rb_waited, rb_appended,
                   rb_taken, rb_evicted, rb_peak>>
    /\ UNCHANGED outsideRing

TakePop_newest ==
    /\ rb_buf # <<>>
    /\ rb_result' = [kind |-> "chunk", chunk |-> Last(rb_buf)]
    /\ rb_taken' = Append(rb_taken, Last(rb_buf))
    /\ rb_buf' = Front(rb_buf)
    /\ rb_occupancy' = Len(rb_buf) - 1
    /\ rb_take' = "idle"
    /\ rb_polls' = 0
    /\ UNCHANGED <<rb_state, rb_ready, rb_stop, rb_prod, rb_chunk, rb_next,
                   rb_prefill, rb_waited, rb_appended, rb_evicted, rb_peak>>
    /\ UNCHANGED outsideRing

\* take(), buffer not empty: pop the oldest chunk and report the occupancy
TakePop ==
    /\ rb_buf # <<>>
    /\ rb_result' = [kind |-> "chunk", chunk |-> Head(rb_buf)]
    /\ rb_taken' = Append(rb_taken, Head(rb_buf))
    /\ rb_buf' = Tail(rb_buf)
    /\ rb_occupancy' = Len(rb_buf) - 1
    /\ rb_take' = "idle"
    /\ rb_polls' = 0
    /\ UNCHANGED <<rb_state, rb_ready, rb_stop, rb_prod, rb_chunk, rb_next,
                   rb_prefill, rb_waited, rb_appended, rb_evicted, rb_peak>>
    /\ UNCHANGED outsideRing

\* take(), buffer empty and producer stopped: end-of-stream
TakeEndOfStream ==
    /\ rb_buf = <<>>
    /\ rb_stop
    /\ rb_result' = [kind |-> "eos", chunk |-> 0]
    /\ rb_take' = "idle"
    /\ rb_polls' = 0
    /\ UNCHANGED <<rb_state, rb_buf, rb_ready, rb_stop, rb_prod, rb_chunk, rb_next,
                   rb_occupancy, rb_prefill, rb_waited, rb_appended, rb_taken,
                   rb_evicted, rb_peak>>
    /\ UNCHANGED outsideRing

\* take(), buffer empty: one short sleep of the bounded wait
TakeWait ==
    /\ rb_buf = <<>>
    /\ ~rb_stop
    /\ rb_polls < MaxPolls
    /\ rb_polls' = rb_polls + 1
    /\ rb_take' = "polling"
    /\ rb_result' = [kind |-> "none", chunk |-> 0]
    /\ UNCHANGED <<rb_state, rb_buf, rb_ready, rb_stop, rb_prod, rb_chunk, rb_next,
                   rb_occupancy, rb_prefill, rb_waited, rb_appended, rb_taken,
                   rb_evicted, rb_peak>>
    /\ UNCHANGED outsideRing

TakeUnderrun_as_eos ==
    /\ rb_buf = <<>>
    /\ ~rb_stop
    /\ rb_polls = MaxPolls
    /\ rb_result' = [kind |-> "eos", chunk |-> 0]
    /\ rb_take' = "idle"
    /\ rb_polls' = 0
    /\ UNCHANGED <<rb_state, rb_buf, rb_ready, rb_stop, rb_prod, rb_chunk, rb_next,
                   rb_occupancy, rb_prefill, rb_waited, rb_appended, rb_taken,
                   rb_evicted, rb_peak>>
    /\ UNCHANGED outsideRing

\* take(), the wait is exhausted: underrun
TakeUnderrun ==
    /\ rb_buf = <<>>
    /\ ~rb_stop
    /\ rb_polls = MaxPolls
    /\ rb_result' = [kind |-> "underrun", chunk |-> 0]
    /\ rb_take' = "idle"
    /\ rb_polls' = 0
    /\ UNCHANGED <<rb_state, rb_buf, rb_ready, rb_stop, rb_prod, rb_chunk, rb_next,
                   rb_occupancy, rb_prefill, rb_waited, rb_appended, rb_taken,
                   rb_evicted, rb_peak>>
    /\ UNCHANGED outsideRing

\* prefill(timeout) is called
PrefillCall ==
    /\ rb_prefill # "waiting"
    /\ rb_prefill' = "waiting"
    /\ rb_waited' = 0
    /\ UNCHANGED <<rb_state, rb_buf, rb_ready, rb_stop, rb_prod, rb_chunk, rb_next,
                   rb_take, rb_polls, rb_result, rb_occupancy, rb_appended,
                   rb_taken, rb_evicted, rb_peak>>
    /\ UNCHANGED outsideRing

\* prefill: the ready flag is set, return success
PrefillReady ==
    /\ rb_prefill = "waiting"
    /\ rb_ready
    /\ rb_prefill' = "ok"
    /\ UNCHANGED <<rb_state, rb_buf, rb_ready, rb_stop, rb_prod, rb_chunk, rb_next,
                   rb_take, rb_polls, rb_result, rb_occupancy, rb_waited,
                   rb_appended, rb_taken, rb_evicted, rb_peak>>
    /\ UNCHANGED outsideRing

\* prefill: time passes while the flag is not set
PrefillWait ==
    /\ rb_prefill = "waiting"
    /\ ~rb_ready
    /\ rb_waited < PrefillTimeout
    /\ rb_waited' = rb_waited + 1
    /\ UNCHANGED <<rb_state, rb_buf, rb_ready, rb_stop, rb_prod, rb_chunk, rb_next,
                   rb_take, rb_polls, rb_result, rb_occupancy, rb_prefill,
                   rb_appended, rb_taken, rb_evicted, rb_peak>>
    /\ UNCHANGED outsideRing

\* prefill: the timeout has elapsed with the flag not set, return failure
PrefillTimedOut ==
    /\ rb_prefill = "waiting"
    /\ ~rb_ready
    /\ rb_waited = PrefillTimeout
    /\ rb_prefill' = "timeout"
    /\ UNCHANGED <<rb_state, rb_buf, rb_ready, rb_stop, rb_prod, rb_chunk, rb_next,
                   rb_take, rb_polls, rb_result, rb_occupancy, rb_waited,
                   rb_appended, rb_taken, rb_evicted, rb_peak>>
    /\ UNCHANGED outsideRing

(***************************************************************************)
(* Specifications                                                          *)
(***************************************************************************)
\* the capture and server parts before anything is constructed
CaptureUnused ==
    /\ pcm = FALSE
    /\ is_capturing = FALSE
    /\ frames_captured = 0
    /\ overruns = 0
    /\ gen = "done"
    /\ reads = <<>>
    /\ gen_out = <<>>
    /\ gen_error = FALSE

ServerUnused ==
    /\ stream = FALSE
    /\ pc = [c \in Conns |-> "done"]
    /\ chunk = [c \in Conns |-> None]
    /\ chunk_count = [c \in Conns |-> 0]
    /\ delivered = [c \in Conns |-> <<>>]
    /\ obtained = [c \in Conns |-> <<>>]
    /\ pulls = [c \in Conns |-> 0]
    /\ loop_task = 0

\* no source has been closed
NoCloses ==
    /\ close_calls = 0
    /\ pcm_closes = 0
    /\ file_closes = 0

\* no read_chunk call made yet
NoCalls ==
    /\ src_req = 0
    /\ src_ret = None
    /\ src_raised = FALSE
    /\ src_calls = 0
    /\ src_reqs = {}
    /\ file_out = <<>>
    /\ syn_ideal = <<>>
    /\ syn_index = <<>>

FileUnused ==
    /\ file_bytes = <<>>
    /\ file_loop = TRUE
    /\ file_open = FALSE
    /\ file_pos = 0
    /\ data_start = 0

SyntheticUnused ==
    /\ amplitude = 0
    /\ sample_count = 0

\* no source at all
SourcesUnused ==
    /\ src_class = "none"
    /\ src_format = DefaultAudioFormat
    /\ NoCalls
    /\ FileUnused
    /\ SyntheticUnused

FormatUnused ==
    /\ fmt = DefaultAudioFormat
    /\ fmt_props = fmt_none

\* no diagnostics object
DiagnosticsUnused ==
    /\ diag = NewDiagnostics(FALSE)
    /\ clock = ClockStart
    /\ diag_ret = NoReturn
    /\ diag_calls = 0
    /\ diag_ticks = 0

NotStopped == stopped_at = -1

IcyUnused ==
    /\ icy_size = 0
    /\ icy_pos = 0
    /\ icy_bytes_sent = 0
    /\ icy_out = <<>>
    /\ icy_pc = "not requested"

SessionUnused ==
    /\ streamer = NewStreamer(-1)
    /\ run = [NewCall("run", "synthetic") EXCEPT !.pc = "not called"]
    /\ world = NewWorld("not_installed")

PercentileUnused ==
    /\ pct_data = <<>>
    /\ pct_low = -1
    /\ pct_low_ret = 0
    /\ pct_high = -1
    /\ pct_high_ret = 0

\* a StreamingDiagnostics(enabled=True) built beside the server and the
\* capture; neither holds a reference to it
DiagnosticsStandingBy ==
    /\ diag = NewDiagnostics(TRUE)
    /\ clock = ClockStart
    /\ diag_ret = NoReturn
    /\ diag_calls = 0
    /\ diag_ticks = 0

HeaderUnused ==
    /\ wav_format = DefaultFormat
    /\ infinite = TRUE
    /\ header = <<>>

\* a ring buffer just constructed
RingUnused ==
    /\ rb_state = "Idle"
    /\ rb_buf = <<>>
    /\ rb_ready = FALSE
    /\ rb_stop = FALSE
    /\ rb_prod = "none"
    /\ rb_chunk = 0
    /\ rb_next = 1
    /\ rb_take = "idle"
    /\ rb_polls = 0
    /\ rb_result = [kind |-> "none", chunk |-> 0]
    /\ rb_occupancy = -1
    /\ rb_prefill = "idle"
    /\ rb_waited = 0
    /\ rb_appended = <<>>
    /\ rb_taken = <<>>
    /\ rb_evicted = {}
    /\ rb_peak = 0

InitHeader ==
    /\ wav_format \in WAVFormats
    /\ infinite \in BOOLEAN
    /\ header = <<>>
    /\ CaptureUnused
    /\ ServerUnused
    /\ RingUnused
    /\ NoCloses
    /\ SourcesUnused
    /\ FormatUnused
    /\ DiagnosticsUnused
    /\ PercentileUnused
    /\ SessionUnused
    /\ NotStopped
    /\ IcyUnused

\* header = generate_wav_header(wav_format, infinite)
GenerateHeader ==
    /\ header = <<>>
    /\ header' = generate_wav_header(wav_format, infinite)
    /\ UNCHANGED <<wav_format, infinite>>
    /\ UNCHANGED outsideHeader

vars == <<hdrVars, capVars, srvVars, rbVars, closeVars, srcVars, fileVars, synVars,
          fmtVars, diagVars, pctVars, runVars, stopVars, icyVars>>

NextHeader == GenerateHeader

SpecHeader == InitHeader /\ [][NextHeader]_vars

\* USBAudioSource(AudioFormat()) opened its device and created the generator,
\* WAVStreamingServer was built on it, and the clients' requests have arrived
InitStream ==
    /\ wav_format = DefaultFormat
    /\ infinite = TRUE
    /\ header = <<>>
    /\ pcm = TRUE
    /\ is_capturing = FALSE
    /\ frames_captured = 0
    /\ overruns = 0
    /\ gen = "created"
    /\ reads = <<>>
    /\ gen_out = <<>>
    /\ gen_error = FALSE
    /\ stream = TRUE
    /\ pc = [c \in Conns |-> "start"]
    /\ chunk = [c \in Conns |-> None]
    /\ chunk_count = [c \in Conns |-> 0]
    /\ delivered = [c \in Conns |-> <<>>]
    /\ obtained = [c \in Conns |-> <<>>]
    /\ pulls = [c \in Conns |-> 0]
    /\ loop_task = 0
    /\ RingUnused
    /\ NoCloses
    /\ src_class = "USBAudioSource"
    /\ src_format = DefaultAudioFormat
    /\ NoCalls
    /\ FileUnused
    /\ SyntheticUnused
    /\ FormatUnused
    /\ DiagnosticsStandingBy
    /\ PercentileUnused
    /\ SessionUnused
    /\ NotStopped
    /\ IcyUnused

NextStream ==
    \/ \E c \in Conns : StreamStart(c)
    \/ \E c \in Conns : ReadChunkCall(c)
    \/ \E c \in Conns : CaptureBegin(c)
    \/ \E c \in Conns : CaptureExit(c)
    \/ \E c \in Conns : CaptureReadData(c)
    \/ \E c \in Conns : CaptureReadNothing(c)
    \/ \E c \in Conns : CaptureOverrun(c)
    \/ \E c \in Conns : CaptureReadError(c)
    \/ \E c \in Conns : StreamYield(c)
    \/ \E c \in Conns : StreamBreak(c)
    \/ \E c \in Conns : StreamResume(c)
    \/ \E c \in Conns : StreamDisconnect(c)
    \/ SourceClose

SpecStream == InitStream /\ [][NextStream]_vars

\* the consumer of the generator: the first connection
Consumer == 1

\* one connection pulling chunks, and stop() at any moment
NextCancel ==
    \/ StreamStart(Consumer)
    \/ ReadChunkCall(Consumer)
    \/ CaptureBegin(Consumer)
    \/ CaptureExit(Consumer)
    \/ CaptureReadData(Consumer)
    \/ CaptureReadNothing(Consumer)
    \/ CaptureOverrun(Consumer)
    \/ CaptureReadError(Consumer)
    \/ StreamYield(Consumer)
    \/ StreamBreak(Consumer)
    \/ StreamResume(Consumer)
    \/ CaptureStop

SpecCancel == InitStream /\ [][NextCancel]_vars

InitRing ==
    /\ HeaderUnused
    /\ CaptureUnused
    /\ ServerUnused
    /\ RingUnused
    /\ NoCloses
    /\ SourcesUnused
    /\ FormatUnused
    /\ DiagnosticsUnused
    /\ PercentileUnused
    /\ SessionUnused
    /\ NotStopped
    /\ IcyUnused

TakeStep == TakePop \/ TakeEndOfStream \/ TakeWait \/ TakeUnderrun

NextRing ==
    \/ StartProducer
    \/ ProducerSeesStop
    \/ ProducerRead
    \/ ProducerEndOfStream
    \/ ProducerAppend
    \/ StopProducer
    \/ TakePop
    \/ TakeEndOfStream
    \/ TakeWait
    \/ TakeUnderrun
    \/ PrefillCall
    \/ PrefillReady
    \/ PrefillWait
    \/ PrefillTimedOut

SpecRing == InitRing /\ [][NextRing]_vars

\* the consumer's thread is scheduled: a take() in progress takes its next step
SpecRingLive == SpecRing /\ WF_vars(TakeStep)

(***************************************************************************)
(* C1: generate_wav_header(format, infinite=True) is 44 bytes: "RIFF" at   *)
(* bytes 0-3, "WAVE" at bytes 8-11, the RIFF size (bytes 4-7) and the data *)
(* size (bytes 40-43) are 0xFFFFFFFF, and the "fmt " block carries,        *)
(* little-endian, PCM tag 1, channels, sample_rate, byte_rate, block_align *)
(* and bits_per_sample of the format.  (Byte k of the source is element    *)
(* k+1 of the sequence.)                                                   *)
(***************************************************************************)
C1_InfiniteHeader ==
    (header # <<>> /\ infinite) =>
        /\ Len(header) = 44
        /\ SubSeq(header, 1, 4) = RIFF
        /\ SubSeq(header, 5, 8) = <<255, 255, 255, 255>>
        /\ SubSeq(header, 9, 12) = WAVE
        /\ SubSeq(header, 13, 16) = FMT_
        /\ UnpackLE(SubSeq(header, 17, 20)) = 16
        /\ UnpackLE(SubSeq(header, 21, 22)) = 1
        /\ UnpackLE(SubSeq(header, 23, 24)) = wav_format.channels
        /\ UnpackLE(SubSeq(header, 25, 28)) = wav_format.sample_rate
        /\ UnpackLE(SubSeq(header, 29, 32)) =
              (wav_format.sample_rate * wav_format.channels
                  * wav_format.bits_per_sample) \div 8
        /\ UnpackLE(SubSeq(header, 33, 34)) =
              (wav_format.channels * wav_format.bits_per_sample) \div 8
        /\ UnpackLE(SubSeq(header, 35, 36)) = wav_format.bits_per_sample
        /\ SubSeq(header, 37, 40) = DATA
        /\ SubSeq(header, 41, 44) = <<255, 255, 255, 255>>

\* a streaming header was generated for a format whose multi-byte fields
\* have distinct bytes (48000 Hz, 6 channels, 24 bit)
C1_Witness ==
    /\ header # <<>>
    /\ infinite
    /\ wav_format = [sample_rate |-> 48000, channels |-> 6, bits_per_sample |-> 24]

(***************************************************************************)
(* C2: on every connection the container header is yielded exactly once    *)
(* and is the first item: no chunk precedes it and no second header        *)
(* follows, however many chunks are yielded.                               *)
(***************************************************************************)
StreamHeader == generate_wav_header(wav_format, TRUE)

C2_HeaderOnceFirst ==
    \A c \in Conns :
        /\ pc[c] = "start" <=> delivered[c] = <<>>
        /\ delivered[c] # <<>> =>
              /\ delivered[c][1] = StreamHeader
              /\ \A i \in 2..Len(delivered[c]) : delivered[c][i] # StreamHeader

\* a connection that has yielded the header and two chunks
C2_Witness == \E c \in Conns : Len(delivered[c]) >= 3

(***************************************************************************)
(* C3: after the header, the items yielded on a connection are exactly the *)
(* chunks read_chunk returned to it, one yield per chunk, in order and     *)
(* byte for byte; only the chunk just returned may still be unyielded.     *)
(***************************************************************************)
C3_ChunksOneToOne ==
    \A c \in Conns :
        pc[c] # "start" =>
            Tail(delivered[c]) =
                IF pc[c] = "returned" /\ ~chunk[c].is_none
                THEN Front(obtained[c])
                ELSE obtained[c]

\* a connection that obtained two chunks and has yielded both
C3_Witness ==
    \E c \in Conns :
        /\ Len(obtained[c]) >= 2
        /\ Len(delivered[c]) = Len(obtained[c]) + 1
        /\ obtained[c][1] # obtained[c][2]

(***************************************************************************)
(* C4: once read_chunk has returned None to a connection, that connection  *)
(* yields nothing more and calls read_chunk no more; its only step is to   *)
(* finish, and a finished generator stays finished.                        *)
(***************************************************************************)
Ended(c) == pc[c] = "done" \/ (pc[c] = "returned" /\ chunk[c].is_none)

C4_EndOfStreamTerminates ==
    [][\A c \in Conns :
          Ended(c) =>
              /\ pc'[c] \in {pc[c], "done"}
              /\ delivered'[c] = delivered[c]
              /\ pulls'[c] = pulls[c]
              /\ obtained'[c] = obtained[c]]_vars

\* a connection that streamed a chunk, was then told end-of-stream and finished
C4_Witness ==
    \E c \in Conns :
        /\ pc[c] = "done"
        /\ chunk[c].is_none
        /\ pulls[c] >= 2
        /\ Len(delivered[c]) >= 2

(***************************************************************************)
(* C5: a pull that blocks (the capture generator sleeping and retrying     *)
(* while the device has no data) does not occupy the event loop thread, so *)
(* other event-loop tasks can run while the pull is pending.               *)
(***************************************************************************)
C5_PullOffEventLoop ==
    \A c \in Conns :
        (pc[c] = "reading" /\ gen = "sleeping") => loop_task # c

(***************************************************************************)
(* C10: every -EPIPE result of pcm.read() adds exactly one to the overrun  *)
(* counter, yields nothing, raises nothing and leaves capture running; the *)
(* generator's output is the data of the successful reads, in order,       *)
(* wherever the overruns fall in the read sequence.                        *)
(***************************************************************************)
IsOverrun(r) == r[1] = -EPIPE
IsData(r) == r[1] > 0

DataOf(rs) ==
    LET good == SelectSeq(rs, IsData)
    IN  [i \in 1..Len(good) |-> good[i][2]]

C10_OverrunRecoverable ==
    /\ [](overruns = Len(SelectSeq(reads, IsOverrun)))
    /\ [](gen_out = DataOf(reads))
    /\ [][(Len(reads') = Len(reads) + 1 /\ IsOverrun(Last(reads'))) =>
             /\ overruns' = overruns + 1
             /\ gen' = "running"
             /\ is_capturing'
             /\ gen_out' = gen_out
             /\ chunk' = chunk
             /\ obtained' = obtained]_vars

\* an overrun was followed by a successful read whose data was yielded,
\* after an earlier overrun
C10_Witness ==
    /\ Len(reads) >= 3
    /\ IsOverrun(reads[Len(reads) - 1])
    /\ IsData(Last(reads))
    /\ overruns >= 2
    /\ gen_out # <<>>
    /\ Last(gen_out) = Last(reads)[2]

(***************************************************************************)
(* C6: the buffer never holds more than 2 * buffer_size chunks; an append  *)
(* to a full buffer evicts exactly the oldest chunk and then appends the   *)
(* new one; so while nothing has been taken the buffer holds the most      *)
(* recent min(k, 2 * buffer_size) of the k chunks appended, in order.      *)
(***************************************************************************)
LastK(q, k) == SubSeq(q, Len(q) - k + 1, Len(q))

C6_CapacityDropOldest ==
    /\ [](Len(rb_buf) <= Capacity)
    /\ [](rb_taken = <<>> =>
             rb_buf = LastK(rb_appended,
                            IF Len(rb_appended) > Capacity
                            THEN Capacity ELSE Len(rb_appended)))
    /\ [][(Len(rb_appended') = Len(rb_appended) + 1 /\ Len(rb_buf) = Capacity) =>
             /\ rb_buf' = Append(Tail(rb_buf), Last(rb_appended'))
             /\ rb_evicted' = rb_evicted \cup {Head(rb_buf)}]_vars

\* more than 2 * buffer_size chunks were appended with none taken
C6_Witness ==
    /\ Len(rb_appended) > Capacity + 1
    /\ rb_taken = <<>>
    /\ Len(rb_buf) = Capacity
    /\ Cardinality(rb_evicted) >= 2

(***************************************************************************)
(* C7: in every interleaving of the producer's appends with the consumer's *)
(* take() calls, the chunks taken are a subsequence of the chunks appended *)
(* (same relative order, none twice), and an appended chunk that is        *)
(* neither taken nor still in the buffer was evicted by drop-oldest.       *)
(***************************************************************************)
RECURSIVE IsSubseq(_, _)
IsSubseq(a, b) ==
    IF a = <<>> THEN TRUE
    ELSE IF b = <<>> THEN FALSE
    ELSE IF Head(a) = Head(b) THEN IsSubseq(Tail(a), Tail(b))
    ELSE IsSubseq(a, Tail(b))

C7_TakeFIFO ==
    /\ IsSubseq(rb_taken, rb_appended)
    /\ Cardinality(Elems(rb_taken)) = Len(rb_taken)
    /\ IsSubseq(rb_buf, rb_appended)
    /\ Elems(rb_appended) = Elems(rb_taken) \cup Elems(rb_buf) \cup rb_evicted
    /\ Elems(rb_taken) \cap rb_evicted = {}
    /\ Elems(rb_taken) \cap Elems(rb_buf) = {}
    /\ \A i \in 1..Len(rb_taken) : \A j \in 1..Len(rb_buf) : rb_taken[i] < rb_buf[j]

\* takes before and after an eviction: a chunk was evicted between two taken ones
C7_Witness ==
    /\ Len(rb_taken) >= 2
    /\ \E e \in rb_evicted : \E i \in 1..(Len(rb_taken) - 1) :
           rb_taken[i] < e /\ e < rb_taken[i + 1]

(***************************************************************************)
(* C8: the ready flag is true exactly from the moment the buffer length    *)
(* first reaches buffer_size and never goes back to false, whatever the    *)
(* consumer drains; prefill returns success only with the flag set, and    *)
(* failure only when its timeout has elapsed with the flag not set.        *)
(***************************************************************************)
C8_ReadyAndPrefill ==
    /\ [](rb_ready <=> rb_peak >= BufferSize)
    /\ [][rb_ready => rb_ready']_vars
    /\ [][(rb_prefill' = "ok" /\ rb_prefill # "ok") => rb_ready]_vars
    /\ [][(rb_prefill' = "timeout" /\ rb_prefill # "timeout") =>
             (~rb_ready /\ rb_waited = PrefillTimeout)]_vars

\* prefill succeeded, the consumer then drained the buffer and more was
\* appended below buffer_size, and the flag is still set
C8_Witness ==
    /\ rb_ready
    /\ rb_prefill = "ok"
    /\ Len(rb_buf) < BufferSize
    /\ rb_taken # <<>>
    /\ rb_buf # <<>>
    /\ Last(rb_appended) = Last(rb_buf)
    /\ Len(rb_appended) > BufferSize

(***************************************************************************)
(* C9: every take() ends with exactly one of: the oldest chunk (buffer not *)
(* empty), underrun (buffer empty for the whole bounded wait, producer not *)
(* stopped) or end-of-stream (buffer empty, producer stopped); the wait is *)
(* bounded, so a take() in progress always returns.                        *)
(***************************************************************************)
TakeReturns ==
    \/ rb_result' # rb_result /\ rb_result'.kind # "none"
    \/ rb_take = "polling" /\ rb_take' = "idle"

C9_TakeOutcome ==
    /\ [](rb_polls <= MaxPolls)
    /\ [](rb_take = "polling" <=> rb_polls > 0)
    /\ [][TakeReturns =>
             \/ /\ rb_result'.kind = "chunk"
                /\ rb_buf # <<>>
                /\ rb_result'.chunk = Head(rb_buf)
                /\ rb_buf' = Tail(rb_buf)
             \/ /\ rb_result'.kind = "underrun"
                /\ rb_buf = <<>>
                /\ ~rb_stop
                /\ rb_polls = MaxPolls
                /\ rb_buf' = rb_buf
             \/ /\ rb_result'.kind = "eos"
                /\ rb_buf = <<>>
                /\ rb_stop
                /\ rb_buf' = rb_buf]_vars
    /\ [](rb_take = "polling" => <>(rb_take = "idle"))

\* a take() reported an underrun after chunks had been taken, producer running
C9_Witness ==
    /\ rb_result.kind = "underrun"
    /\ rb_take = "idle"
    /\ rb_taken # <<>>
    /\ ~rb_stop

\* SyntheticAudioSource(format, amplitude=amplitude)
InitSynthetic ==
    /\ src_class = "SyntheticAudioSource"
    /\ src_format \in SourceFormats
    /\ amplitude \in Amplitudes
    /\ sample_count = 0
    /\ FileUnused

\* audio_source.FileAudioSource(file_path, format) after its _open
InitFile ==
    /\ src_class = "FileAudioSource"
    /\ src_format \in SourceFormats
    /\ file_bytes \in Files
    /\ ~Open(file_bytes).raised
    /\ file_loop = TRUE
    /\ file_open = TRUE
    /\ file_pos = Open(file_bytes).pos
    /\ data_start = Open(file_bytes).data_start
    /\ SyntheticUnused

\* streaming_wav.FileAudioSource(file_path, loop) after its _open
InitWavFile ==
    /\ src_class = "WavFileAudioSource"
    /\ src_format = DefaultAudioFormat
    /\ file_bytes \in Files
    /\ ~Open(file_bytes).raised
    /\ file_loop \in BOOLEAN
    /\ file_open = TRUE
    /\ file_pos = Open(file_bytes).pos
    /\ data_start = Open(file_bytes).data_start
    /\ SyntheticUnused

InitSources ==
    /\ InitSynthetic \/ InitFile \/ InitWavFile
    /\ NoCalls
    /\ NoCloses
    /\ HeaderUnused
    /\ CaptureUnused
    /\ ServerUnused
    /\ RingUnused
    /\ FormatUnused
    /\ DiagnosticsUnused
    /\ PercentileUnused
    /\ SessionUnused
    /\ NotStopped
    /\ IcyUnused

NextSources ==
    \/ SyntheticReadChunk
    \/ SyntheticClose
    \/ FileReadChunk
    \/ WavFileReadChunk
    \/ FileClose

SpecSources == InitSources /\ [][NextSources]_vars

\* every source variant, the USB source serving its connections
InitClose == InitStream \/ InitSources

NextClose == NextStream \/ NextSources

SpecClose == InitClose /\ [][NextClose]_vars

\* StreamingDiagnostics(enabled=...) just constructed
InitDiagnostics ==
    /\ diag \in {NewDiagnostics(e) : e \in BOOLEAN}
    /\ clock = ClockStart
    /\ diag_ret = NoReturn
    /\ diag_calls = 0
    /\ diag_ticks = 0
    /\ HeaderUnused
    /\ CaptureUnused
    /\ ServerUnused
    /\ RingUnused
    /\ NoCloses
    /\ SourcesUnused
    /\ FormatUnused
    /\ PercentileUnused
    /\ SessionUnused
    /\ NotStopped
    /\ IcyUnused

NextDiagnostics ==
    \/ Tick
    \/ DiagStart
    \/ RecordChunkRead
    \/ RecordYield
    \/ RecordBufferOccupancy
    \/ RecordOverrun
    \/ ShouldPrintSummary
    \/ PeriodicSummary
    \/ FinalReport

SpecDiagnostics == InitDiagnostics /\ [][NextDiagnostics]_vars

\* a list of samples, no call made yet
InitPercentile ==
    /\ pct_data \in SampleLists
    /\ pct_low = -1
    /\ pct_low_ret = 0
    /\ pct_high = -1
    /\ pct_high_ret = 0
    /\ HeaderUnused
    /\ CaptureUnused
    /\ ServerUnused
    /\ RingUnused
    /\ NoCloses
    /\ SourcesUnused
    /\ FormatUnused
    /\ DiagnosticsUnused
    /\ SessionUnused
    /\ NotStopped
    /\ IcyUnused

NextPercentile ==
    \/ PercentileLow
    \/ PercentileHigh

SpecPercentile == InitPercentile /\ [][NextPercentile]_vars

\* a streamer just constructed and run or run_test just called on it
InitSession ==
    /\ streamer \in {NewStreamer(duration) : duration \in Durations}
    /\ run \in {NewCall(entry, audio_source) :
                   entry \in Entries, audio_source \in SourceArgs}
    /\ world \in {NewWorld(soco) : soco \in SoCoOutcomes}
    /\ HeaderUnused
    /\ CaptureUnused
    /\ ServerUnused
    /\ RingUnused
    /\ NoCloses
    /\ SourcesUnused
    /\ FormatUnused
    /\ DiagnosticsUnused
    /\ PercentileUnused
    /\ NotStopped
    /\ IcyUnused

NextSession ==
    \/ SetupAudioSource
    \/ SetupStreamingServer
    \/ StartHttpServer
    \/ ServerReadyPoll
    \/ ServerReadyTimeout
    \/ SetupSonos
    \/ StartStreaming
    \/ StateTransition
    \/ StateTransitionsDone
    \/ StartupInterrupted
    \/ MonitorStart
    \/ MonitorSleep
    \/ MonitorExit
    \/ MonitorInterrupted
    \/ RequestStop
    \/ FinalState
    \/ Cleanup

SpecSession == InitSession /\ [][NextSession]_vars

\* the thread in monitor_streaming keeps running: time.sleep(1) returns and
\* the loop test is made again
SpecSessionLive ==
    SpecSession /\ WF_vars(MonitorSleep) /\ WF_vars(MonitorExit)

\* GET /turntable.flac with icy-metadata: 1, AUDIO_FILE existing
InitIcy ==
    /\ icy_size \in IcyFileSizes
    /\ icy_pos = 0
    /\ icy_bytes_sent = 0
    /\ icy_out = <<>>
    /\ icy_pc = "reading"
    /\ HeaderUnused
    /\ CaptureUnused
    /\ ServerUnused
    /\ RingUnused
    /\ NoCloses
    /\ SourcesUnused
    /\ FormatUnused
    /\ DiagnosticsUnused
    /\ PercentileUnused
    /\ SessionUnused
    /\ NotStopped

NextIcy ==
    \/ IcyReadChunk
    \/ IcyInsertMetadata
    \/ IcyResume
    \/ IcyFileEnd
    \/ IcyError

SpecIcy == InitIcy /\ [][NextIcy]_vars

\* AudioFormat(**fmt) and WAVFormat(**fmt) constructed with the same fields
InitFormat ==
    /\ fmt \in AudioFormats
    /\ fmt_props = fmt_none
    /\ HeaderUnused
    /\ CaptureUnused
    /\ ServerUnused
    /\ RingUnused
    /\ NoCloses
    /\ SourcesUnused
    /\ DiagnosticsUnused
    /\ PercentileUnused
    /\ SessionUnused
    /\ NotStopped
    /\ IcyUnused

\* read bytes_per_sample, byte_rate and block_align of the AudioFormat and
\* byte_rate and block_align of the WAVFormat
ReadProperties ==
    /\ ~fmt_props.read
    /\ fmt_props' = [read |-> TRUE,
                     bytes_per_sample |-> bytes_per_sample(fmt),
                     byte_rate |-> AudioFormat_byte_rate(fmt),
                     block_align |-> AudioFormat_block_align(fmt),
                     wav_byte_rate |-> byte_rate(fmt),
                     wav_block_align |-> block_align(fmt)]
    /\ UNCHANGED fmt
    /\ UNCHANGED outsideFormat

NextFormat == ReadProperties

SpecFormat == InitFormat /\ [][NextFormat]_vars

(***************************************************************************)
(* C11: a negative read result other than the overrun code makes the       *)
(* capture stream raise: no chunk is yielded for that read, is_capturing   *)
(* is false afterwards, and the finished stream yields nothing more.       *)
(***************************************************************************)
IsFatal(r) == r[1] < 0 /\ r[1] # -EPIPE

C11_FatalReadEndsCapture ==
    /\ [][ (reads' # reads /\ reads' # <<>> /\ IsFatal(Last(reads')))
            => /\ gen' = "done"
               /\ gen_error'
               /\ ~is_capturing'
               /\ gen_out' = gen_out ]_vars
    /\ [][ gen = "done" => (gen' = "done" /\ gen_out' = gen_out) ]_vars
    /\ [](gen = "done" => ~is_capturing)

C11_Witness ==
    /\ gen = "done"
    /\ gen_error
    /\ reads # <<>>
    /\ Last(reads)[1] = -ENODEV
    /\ gen_out # <<>>
    /\ \E c, d \in Conns :
          /\ c # d
          /\ pulls[c] = Len(obtained[c]) + 1 /\ pc[c] = "done"
          /\ pulls[d] = Len(obtained[d]) + 1 /\ pc[d] = "returned" /\ chunk[d].is_none

(***************************************************************************)
(* C12: USBAudioSource.read_chunk returns None only when the capture       *)
(* stream has terminated (by its stop, by a fatal capture error) or the    *)
(* source is closed; a read of no data and an overrun return nothing to    *)
(* the caller, the call goes on to the next read.                          *)
(***************************************************************************)
ReturnsNone(c) == pc[c] = "reading" /\ pc'[c] = "returned" /\ chunk'[c].is_none

ReturnsNoneAtCall(c) ==
    pc[c] \in {"header_yielded", "slept"} /\ pc'[c] = "returned" /\ chunk'[c].is_none

C12_NoneOnlyAtEnd ==
    /\ [][ \A c \in Conns :
              (ReturnsNone(c) \/ ReturnsNoneAtCall(c)) => (gen' = "done" \/ ~stream) ]_vars
    /\ [][ (reads' # reads /\ reads' # <<>> /\ Last(reads')[1] \in {0, -EPIPE})
            => (pc' = pc /\ chunk' = chunk /\ gen' \in {"running", "sleeping"}) ]_vars

C12_Witness ==
    /\ \E c \in Conns : pc[c] = "returned" /\ chunk[c].is_none
    /\ gen = "done"
    /\ stream
    /\ \E i \in 1..Len(reads) : reads[i][1] = 0
    /\ \E i \in 1..Len(reads) : reads[i][1] = -EPIPE

(***************************************************************************)
(* C17: for a format whose channels * bits_per_sample is divisible by 8,   *)
(* bytes_per_sample is channels * bits_per_sample / 8, byte_rate is        *)
(* sample_rate * bytes_per_sample, block_align is bytes_per_sample, and    *)
(* AudioFormat and WAVFormat give the same byte_rate and block_align.      *)
(***************************************************************************)
ValidFormat(f) == (f.channels * f.bits_per_sample) % 8 = 0

C17_FormatArithmetic ==
    (fmt_props.read /\ ValidFormat(fmt)) =>
        /\ 8 * fmt_props.bytes_per_sample = fmt.channels * fmt.bits_per_sample
        /\ fmt_props.byte_rate = fmt.sample_rate * fmt_props.bytes_per_sample
        /\ fmt_props.block_align = fmt_props.bytes_per_sample
        /\ fmt_props.wav_byte_rate = fmt_props.byte_rate
        /\ fmt_props.wav_block_align = fmt_props.block_align

C17_Witness ==
    /\ fmt_props.read
    /\ ValidFormat(fmt)
    /\ fmt.bits_per_sample = 12
    /\ fmt.channels = 6
    /\ fmt.sample_rate = 44100
    /\ fmt_props.byte_rate = 396900

(***************************************************************************)
(* C13: a looping file source whose data region is at least one request    *)
(* long returns exactly the requested number of bytes from every           *)
(* read_chunk call, the call that wraps included.                          *)
(***************************************************************************)
IsFile == src_class \in {"FileAudioSource", "WavFileAudioSource"}

\* the bytes the last call asked for
ReqBytes ==
    IF src_class = "WavFileAudioSource" THEN src_req
    ELSE src_req * ((src_format.channels * src_format.bits_per_sample) \div 8)

\* the audio the file was made from
PayloadOf(b) == CHOOSE q \in Payloads : b \in FilesOf(q)

C13_NoShortReads ==
    (/\ IsFile /\ file_loop /\ file_open
     /\ src_calls > 0
     /\ ReqBytes > 0
     /\ Len(PayloadOf(file_bytes)) >= ReqBytes)
    => (~src_ret.is_none /\ Len(src_ret.bytes) = ReqBytes)

(***************************************************************************)
(* C14: the chunks a looping file source returns, concatenated, are the    *)
(* audio of the file repeated: no byte skipped, duplicated or taken from   *)
(* the container header.  C14_LoopFidelity states it for any request       *)
(* sizes; C14_LoopFidelityPositive for request sizes of at least one.      *)
(***************************************************************************)
IsRepetitionOf(out, q) ==
    IF q = <<>> THEN out = <<>>
    ELSE \A i \in 1..Len(out) : out[i] = q[((i - 1) % Len(q)) + 1]

SampleAt(bs, k) ==
    LET u == bs[2 * k - 1] + 256 * bs[2 * k]
    IN  IF u >= 32768 THEN u - 65536 ELSE u

Limited(v) == IF v > 32767 THEN 32767 ELSE IF v < -32768 THEN -32768 ELSE v

C15_SampleRange ==
    (src_class = "SyntheticAudioSource" /\ ~src_ret.is_none /\ ~src_raised) =>
        /\ Len(src_ret.bytes) = 2 * src_format.channels * Len(syn_ideal)
        /\ \A i \in 1..Len(syn_ideal) : \A ch \in 1..src_format.channels :
              LET v == SampleAt(src_ret.bytes, (i - 1) * src_format.channels + ch)
              IN  v \in -32768..32767 /\ v = Limited(syn_ideal[i])
        /\ amplitude = 0 => \A k \in 1..Len(src_ret.bytes) : src_ret.bytes[k] = 0

C15_Witness ==
    /\ src_class = "SyntheticAudioSource" /\ ~src_ret.is_none /\ ~src_raised
    /\ src_format.channels = 2
    /\ Len(syn_ideal) = 2
    /\ syn_ideal[1] > 32767
    /\ syn_ideal[2] < -32768
    /\ SampleAt(src_ret.bytes, 1) = 32767
    /\ SampleAt(src_ret.bytes, 4) = -32768

(***************************************************************************)
(* C16: the synthetic source never signals end of stream.                  *)
(* C16_NeverEndOfStream states it for every call; C16_NoEndOfStreamForData *)
(* for the calls that ask for at least one frame.                          *)
(***************************************************************************)
C16_NeverEndOfStream ==
    (src_class = "SyntheticAudioSource" /\ src_calls > 0 /\ ~src_raised)
    => ~src_ret.is_none

C16_NoEndOfStreamForData ==
    (src_class = "SyntheticAudioSource" /\ src_calls > 0 /\ ~src_raised /\ src_req > 0)
    => (~src_ret.is_none /\ src_ret.bytes # <<>>)

C16_Witness ==
    /\ src_class = "SyntheticAudioSource"
    /\ src_calls >= 3
    /\ 0 \in src_reqs
    /\ src_req > 0
    /\ amplitude = 0
    /\ ~src_ret.is_none
    /\ sample_count > src_req

C19_FormatMismatchFailsFast ==
    (src_format.bits_per_sample # 16 /\ src_calls > 0) => src_ret.is_none

(***************************************************************************)
(* C20: with enabled false, record_chunk_read, record_yield,               *)
(* record_buffer_occupancy and record_overrun leave every series, counter  *)
(* and timestamp unchanged, should_print_summary returns False, and        *)
(* periodic_summary and final_report return the empty string and change    *)
(* nothing.                                                                *)
(***************************************************************************)
GatedCalls ==
    {"record_chunk_read", "record_yield", "record_buffer_occupancy", "record_overrun",
     "should_print_summary", "periodic_summary", "final_report"}

C20_InertWhenDisabled ==
    [][ (~diag.enabled /\ diag_calls' = diag_calls + 1 /\ diag_ret'.call \in GatedCalls)
        => /\ diag' = diag
           /\ diag_ret'.text = ""
           /\ ~diag_ret'.truth ]_vars

C20_Witness ==
    /\ ~diag.enabled
    /\ diag_calls = MaxDiagCalls
    /\ diag.start_time = ClockStart
    /\ clock - diag.last_summary_time >= summary_interval * 1000
    /\ diag_ret.call = "should_print_summary"
    /\ ~diag_ret.truth
    /\ diag.chunk_sizes = <<>>
    /\ diag.total_chunks = 0


\* C21: for any fixed data, _percentile(data, p) is non-decreasing in p over
\* 0..100, and the 50th percentile of [10, 20, 30, 40, 50] is 30
C21_PercentileMonotonic ==
    /\ (pct_high # -1 /\ pct_low <= pct_high) => pct_low_ret <= pct_high_ret
    /\ (pct_low = 50 /\ pct_data = <<10, 20, 30, 40, 50>>) => pct_low_ret = 30

C21_Witness ==
    /\ pct_data = <<30, 50, 10, 40, 20>>
    /\ pct_low = 50 /\ pct_low_ret = 30
    /\ pct_high = 99 /\ pct_high_ret = 50

\* 1-based rank ceil(p * n / 100) of nearest-rank
NearestRank(n, p) == (p * n + 99) \div 100

\* C22: for non-empty data and p in 1..100, _percentile(data, p) is the
\* element at rank ceil(p * n / 100) of a sorted copy of data
C22_NearestRank ==
    (pct_low >= 1 /\ pct_data # <<>>)
        => pct_low_ret = sorted(pct_data)[NearestRank(Len(pct_data), pct_low)]


(***************************************************************************)
(* C23: with diagnostics enabled, the small-chunk entries are as many as   *)
(* the recorded chunks below small_chunk_threshold (4096), the slow-read   *)
(* entries as many as the reads above slow_read_threshold_ms, the          *)
(* slow-yield entries as many as the yields above 100 ms and the large-gap *)
(* entries as many as the gaps above 100 ms; a value equal to its          *)
(* threshold adds no entry.                                                *)
(***************************************************************************)
C23_AnomalyClassification ==
    diag.enabled =>
        /\ Len(diag.small_chunk_times)
              = Count(diag.chunk_sizes, LAMBDA size : size < 4096)
        /\ Len(diag.slow_read_times)
              = Count(diag.read_latencies, LAMBDA ms : ms > slow_read_threshold_ms)
        /\ Len(diag.slow_yield_times)
              = Count(diag.yield_latencies, LAMBDA ms : ms > 100)
        /\ Len(diag.large_gap_times)
              = Count(diag.inter_yield_gaps, LAMBDA ms : ms > 100)

\* a yield of exactly 100 ms, a gap of exactly 100 ms, a chunk of exactly
\* 4096 bytes and a read of exactly slow_read_threshold_ms, none classified,
\* beside a yield of 101 ms that is
C23_Witness ==
    /\ diag.enabled
    /\ diag.yield_latencies = <<100, 101>>
    /\ diag.inter_yield_gaps = <<100>>
    /\ diag.large_gap_times = <<>>
    /\ Len(diag.slow_yield_times) = 1
    /\ diag.chunk_sizes = <<4096>>
    /\ diag.read_latencies = <<slow_read_threshold_ms>>
    /\ diag.small_chunk_times = <<>>
    /\ diag.slow_read_times = <<>>

\* more than 5% of the recorded yields were slow
Elevated ==
    /\ diag.yield_latencies # <<>>
    /\ Len(diag.slow_yield_times) * 100 > 5 * Len(diag.yield_latencies)

\* the anomaly entries other than buffer underruns
OtherAnomalies ==
    Len(diag.small_chunk_times) + Len(diag.slow_read_times)
        + Len(diag.slow_yield_times) + Len(diag.large_gap_times)

IsPrefix(old, new) ==
    /\ Len(old) <= Len(new)
    /\ \A i \in 1..Len(old) : new[i] = old[i]

Series ==
    {"chunk_sizes", "chunk_timestamps", "read_latencies", "yield_latencies",
     "thread_overheads", "inter_yield_gaps", "buffer_occupancies",
     "small_chunk_times", "slow_read_times", "slow_yield_times", "large_gap_times",
     "buffer_underrun_times"}

(***************************************************************************)
(* C25: no operation removes, reorders or changes a recorded sample: each  *)
(* series before a step is an initial part of the series after it, and     *)
(* total_bytes, total_chunks and overruns never decrease.                  *)
(***************************************************************************)
C25_AppendOnly ==
    [][ /\ \A f \in Series : IsPrefix(diag[f], diag'[f])
        /\ diag'.total_bytes >= diag.total_bytes
        /\ diag'.total_chunks >= diag.total_chunks
        /\ diag'.overruns >= diag.overruns ]_vars

\* a chunk was recorded, then summarised, then reported, and is still there
C25_Witness ==
    /\ diag.enabled
    /\ diag.start_time = 0
    /\ diag.last_summary_time = clock
    /\ diag_ret.call = "final_report"
    /\ diag_ret.text = "STREAMING DIAGNOSTICS REPORT"
    /\ Len(diag.chunk_sizes) = 1
    /\ diag.total_chunks = 1


\* the payload chunks delivered to the transport on the connections of S
RECURSIVE ChunksDelivered(_)
ChunksDelivered(S) ==
    IF S = {} THEN 0
    ELSE LET c == CHOOSE x \in S : TRUE
         IN  Max(Len(delivered[c]) - 1, 0) + ChunksDelivered(S \ {c})

(***************************************************************************)
(* C26: with diagnostics enabled, the recorded yield-latency samples are   *)
(* as many as the payload chunks delivered to the transport, and the       *)
(* recorded read-latency samples as many as the successful capture reads.  *)
(***************************************************************************)
C26_DeliveriesRecorded ==
    diag.enabled =>
        /\ Len(diag.yield_latencies) = ChunksDelivered(Conns)
        /\ Len(diag.read_latencies) = Len(SelectSeq(reads, IsData))


(***************************************************************************)
(* C27: when the audio source cannot be set up (unknown source type,       *)
(* missing file, no capture device, device cannot be opened), run returns  *)
(* final_state SETUP_FAILED with duration 0 and a non-empty errors list,   *)
(* the HTTP server is never started, the playback device never contacted   *)
(* and the monitoring loop never entered.                                  *)
(***************************************************************************)
C27_SetupFailureStopsSession ==
    (run.audio_source \in SetupFailures /\ run.pc \notin {"not called", "setup_audio_source"})
        => /\ run.pc = "returned"
           /\ run.entry = "run" =>
                 /\ run.ret.kind = "StreamingStats"
                 /\ run.ret.final_state = "SETUP_FAILED"
                 /\ run.ret.duration_seconds = 0
                 /\ run.ret.errors # <<>>
           /\ ~world.http_thread
           /\ ~world.device_contacted
           /\ world.play_uri_calls = 0
           /\ ~world.monitor_entered
           /\ streamer.start_time = -1

\* run("usb") with a device that cannot be opened has returned, where a
\* playback device could have been reached
C27_Witness ==
    /\ run.entry = "run"
    /\ run.audio_source = "usb_open_fails"
    /\ world.soco = "device"
    /\ run.pc = "returned"
    /\ run.ret.final_state = "SETUP_FAILED"

\* the values final_state may have
FinalStates == {"SETUP_FAILED", "SERVER_FAILED", "UNKNOWN"} \cup TransportStates

(***************************************************************************)
(* C28: every way run ends is by returning a StreamingStats whose          *)
(* final_state is SETUP_FAILED, SERVER_FAILED, the transport state the     *)
(* device reported last, or UNKNOWN, with the errors collected so far.     *)
(***************************************************************************)
C28_TerminationReason ==
    (run.entry = "run" /\ run.pc \in {"returned", "raised"})
        => /\ run.pc = "returned"
           /\ run.ret.kind = "StreamingStats"
           /\ run.ret.final_state \in FinalStates
           /\ run.errors # <<>> => run.ret.errors = run.errors

(***************************************************************************)
(* C29: play_uri is invoked only after the HTTP server thread was started  *)
(* and the readiness check succeeded; when the server does not become      *)
(* ready within the timeout the call ends, run with SERVER_FAILED and      *)
(* run_test with False, and play_uri is never invoked.                     *)
(***************************************************************************)
C29_ServerBeforePlayback ==
    /\ world.play_uri_calls > 0 => (world.http_thread /\ world.server_ready)
    /\ (world.http_thread /\ ~world.server_ready /\ run.pc # "wait_for_server_ready")
          => /\ world.play_uri_calls = 0
             /\ ~world.device_contacted
             /\ run.pc \in {"returned", "raised"}
             /\ run.pc = "returned" =>
                   IF run.entry = "run"
                   THEN run.ret.final_state = "SERVER_FAILED"
                   ELSE run.ret = Bool(FALSE)

\* play_uri was invoked, after a readiness check that succeeded
C29_Witness ==
    /\ world.play_uri_calls = 1
    /\ world.server_ready
    /\ run.pc = "state_transitions"
    /\ world.soco = "device"

\* the server never became ready and the call returned
C29_WitnessTimeout ==
    /\ world.http_thread
    /\ ~world.server_ready
    /\ run.pc = "returned"
    /\ world.soco = "device"

(***************************************************************************)
(* C30: whenever run or run_test returns after an audio source was         *)
(* created, that audio source has been closed.                             *)
(***************************************************************************)
C30_SourceClosedOnReturn ==
    (run.pc = "returned" /\ streamer.audio_source # "None")
        => streamer.audio_source = "closed"


(***************************************************************************)
(* C31: after stop() was called on the capture, the generator yields at    *)
(* most one further chunk and the stop signal stays set until it has       *)
(* terminated, whenever stop() arrives, also before the generator's first  *)
(* advance.                                                                *)
(***************************************************************************)
C31_CooperativeStop ==
    stopped_at # -1 =>
        /\ Len(gen_out) <= stopped_at + 1
        /\ ~is_capturing

(***************************************************************************)
(* C32: a read of num_frames > 0 frames from a 16-bit synthetic source     *)
(* returns num_frames * channels * 2 bytes and advances sample_count by    *)
(* num_frames; sample_count never decreases, and the frames of a read are  *)
(* generated from the indices sample_count, sample_count + 1, ... that     *)
(* follow those of the reads before.                                       *)
(***************************************************************************)
C32_SyntheticReadSize ==
    /\ [][ (/\ src_class = "SyntheticAudioSource"
            /\ src_calls' = src_calls + 1
            /\ src_req' > 0
            /\ src_format.bits_per_sample = 16)
           => /\ ~src_raised'
              /\ ~src_ret'.is_none
              /\ Len(src_ret'.bytes) = src_req' * src_format.channels * 2
              /\ sample_count' = sample_count + src_req'
              /\ syn_index' = [i \in 1..src_req' |-> sample_count + (i - 1)]
              /\ sample_count' = syn_index'[src_req'] + 1 ]_vars
    /\ [][sample_count' >= sample_count]_vars

C32_Witness ==
    /\ src_class = "SyntheticAudioSource"
    /\ src_format.bits_per_sample = 16
    /\ src_format.channels = 2
    /\ src_calls = 3
    /\ 0 \in src_reqs
    /\ src_req = 2
    /\ syn_index = <<1, 2>>
    /\ sample_count = 3
    /\ Len(src_ret.bytes) = 8

(***************************************************************************)
(* C33: in run(), a setup_sonos or start_streaming that returned False     *)
(* does not end the session: the HTTP server is running, the call goes on  *)
(* into the monitoring loop, cleans up and returns the StreamingStats with *)
(* the entry of the failure in its errors.  A sonos.stop() that raised is  *)
(* recorded in errors and the audio source is closed all the same.         *)
(***************************************************************************)
ErrorsIn(errors) == {errors[i] : i \in 1..Len(errors)}

C33_WitnessSetup ==
    /\ run.entry = "run"
    /\ run.pc = "returned"
    /\ world.setup_sonos = "False"
    /\ world.monitor_entered
    /\ world.now > streamer.start_time
    /\ run.ret.errors = <<"Sonos setup failed">>
    /\ streamer.audio_source = "closed"

(***************************************************************************)
(* C34: every metadata block of the ICY stream is preceded by exactly      *)
(* ICY_METAINT audio bytes, counted from the start of the stream or from   *)
(* the metadata block before it, which is the icy-metaint the response     *)
(* headers advertise.                                                      *)
(***************************************************************************)
RECURSIVE AudioRun(_, _)
AudioRun(out, i) ==
    IF i = 0 \/ out[i].kind = "metadata" THEN 0
    ELSE out[i].audio_bytes + AudioRun(out, i - 1)

C34_MetaintFraming ==
    \A i \in 1..Len(icy_out) :
        icy_out[i].kind = "metadata" => AudioRun(icy_out, i - 1) = icy_metaint

(***************************************************************************)
(* C35: once a read_chunk of the USB source has returned None, the source  *)
(* is at its end for good: its stream is None or its generator is          *)
(* finished, no later read_chunk returns a chunk and the generator yields  *)
(* nothing more.                                                           *)
(***************************************************************************)
\* the read_chunk calls of connection c that have returned None
NoneReturns(c) ==
    pulls[c] - (IF pc[c] = "reading" THEN 1 ELSE 0) - Len(obtained[c])

EndOfStreamSeen == \E c \in Conns : NoneReturns(c) > 0

C35_EndOfStreamSticky ==
    /\ [](EndOfStreamSeen => (~stream \/ gen = "done"))
    /\ [][EndOfStreamSeen => (obtained' = obtained /\ gen_out' = gen_out)]_vars
    /\ [][EndOfStreamSeen => EndOfStreamSeen']_vars

C35_Witness ==
    /\ \A c \in Conns : NoneReturns(c) > 0
    /\ \E c \in Conns : obtained[c] # <<>>
    /\ stream
    /\ gen_error

(***************************************************************************)
(* C36: a streaming_wav.FileAudioSource with loop=False, read with         *)
(* requests of at least one byte until it returns None, has by then        *)
(* returned the whole data region of its file, from the data start offset  *)
(* to the end of the file.                                                 *)
(***************************************************************************)
DataRegion == SubSeq(file_bytes, data_start + 1, Len(file_bytes))

C36_NoDataLost ==
    (/\ src_class = "WavFileAudioSource"
     /\ ~file_loop
     /\ file_open
     /\ src_calls > 0
     /\ 0 \notin src_reqs
     /\ src_ret.is_none)
    => file_out = DataRegion

(***************************************************************************)
(* C37: connections sharing the one audio source.  Each connection gets    *)
(* the header as its first item; every chunk read from the source goes to  *)
(* exactly one connection, once (the chunk just returned to a connection   *)
(* is the one it yields next); every chunk a connection gets was read from *)
(* the source; and on each connection the chunks come in the order they    *)
(* were read.                                                              *)
(***************************************************************************)
\* the chunks connection c has yielded after its header
ChunksOf(c) == IF delivered[c] = <<>> THEN <<>> ELSE Tail(delivered[c])

\* the places of ChunksOf(c) that hold the i-th chunk read from the source
PlacesOf(c, i) == {j \in 1..Len(ChunksOf(c)) : ChunksOf(c)[j] = gen_out[i]}

\* connection c has been returned the i-th chunk and is about to yield it
AboutToYield(c, i) ==
    pc[c] = "returned" /\ ~chunk[c].is_none /\ chunk[c].bytes = gen_out[i]

ReadIndex(data) == CHOOSE i \in 1..Len(gen_out) : gen_out[i] = data

C37_SharedSourcePartition ==
    /\ \A c \in Conns :
          delivered[c] # <<>> => delivered[c][1] = StreamHeader
    /\ \A i \in 1..Len(gen_out) :
          /\ Cardinality({c \in Conns : PlacesOf(c, i) # {} \/ AboutToYield(c, i)}) = 1
          /\ \A c \in Conns :
                Cardinality(PlacesOf(c, i)) + (IF AboutToYield(c, i) THEN 1 ELSE 0) <= 1
    /\ \A c \in Conns : \A j \in 1..Len(ChunksOf(c)) :
          /\ \E i \in 1..Len(gen_out) : gen_out[i] = ChunksOf(c)[j]
          /\ \A k \in 1..(j - 1) :
                ReadIndex(ChunksOf(c)[k]) < ReadIndex(ChunksOf(c)[j])

\* three chunks read, the first and the third by one connection, the second
\* by the other
C37_Witness ==
    /\ Len(gen_out) = 3
    /\ ChunksOf(1) = <<gen_out[1], gen_out[3]>>
    /\ ChunksOf(2) = <<gen_out[2]>>

(***************************************************************************)
(* C38: with diagnostics enabled, whatever was recorded and reported,      *)
(* total_chunks is the length of chunk_sizes, of read_latencies and of     *)
(* chunk_timestamps, total_bytes is the sum of chunk_sizes, and n >= 1     *)
(* recorded yields have left n - 1 inter-yield gaps (none for n = 0).      *)
(***************************************************************************)
RECURSIVE SumOf(_)
SumOf(q) == IF q = <<>> THEN 0 ELSE Head(q) + SumOf(Tail(q))

C38_AccountingConsistent ==
    diag.enabled =>
        /\ diag.total_chunks = Len(diag.chunk_sizes)
        /\ diag.total_chunks = Len(diag.read_latencies)
        /\ diag.total_chunks = Len(diag.chunk_timestamps)
        /\ diag.total_bytes = SumOf(diag.chunk_sizes)
        /\ Len(diag.inter_yield_gaps) =
              IF diag.yield_latencies = <<>> THEN 0 ELSE Len(diag.yield_latencies) - 1

C38_Witness ==
    /\ diag.enabled
    /\ diag.total_chunks = 1
    /\ diag.total_bytes = 4095
    /\ Len(diag.yield_latencies) = 2
    /\ Len(diag.inter_yield_gaps) = 1
    /\ diag_calls = 3

(***************************************************************************)
(* C39: the monitoring loop.  With a duration set it never sleeps once the *)
(* elapsed time has reached the duration, so the elapsed time never passes *)
(* it and a duration of 0 leaves at the start time; with stop_requested    *)
(* set it does not sleep again; in both cases it is left; and whenever it  *)
(* has been left, by its test, by break or by an interrupt,                *)
(* stop_requested is true.                                                 *)
(***************************************************************************)
Elapsed == world.now - streamer.start_time

InMonitorLoop == run.pc = "monitor_loop"

DurationReached ==
    streamer.test_duration_seconds # -1 /\ Elapsed >= streamer.test_duration_seconds

C39_MonitorTerminates ==
    /\ [][(InMonitorLoop /\ (DurationReached \/ streamer.stop_requested))
            => world'.now = world.now]_vars
    /\ []((InMonitorLoop /\ streamer.test_duration_seconds # -1)
            => Elapsed <= streamer.test_duration_seconds)
    /\ []((world.monitor_entered /\ ~InMonitorLoop) => streamer.stop_requested)
    /\ [][(InMonitorLoop /\ ~InMonitorLoop') => streamer'.stop_requested]_vars
    /\ (InMonitorLoop /\ (streamer.test_duration_seconds # -1 \/ streamer.stop_requested))
          ~> ~InMonitorLoop

\* a loop left after the two seconds of its duration, no stop requested before
C39_Witness ==
    /\ world.monitor_entered
    /\ run.pc = "returned"
    /\ streamer.test_duration_seconds = 2
    /\ Elapsed = 2
    /\ streamer.stop_requested

\* a loop with duration 0, left at once
C39_WitnessZero ==
    /\ world.monitor_entered
    /\ run.pc = "final_state"
    /\ streamer.test_duration_seconds = 0
    /\ Elapsed = 0
    /\ streamer.stop_requested

====
